---------------------------- MODULE Spec2Model ----------------------------
(***************************************************************************)
(* Model of the comment-collection pipeline of graph-ig-fb-PCS:            *)
(*   src/function.py                     process_links (run orchestrator)  *)
(*   src/facebook/facebook_fetcher.py    FacebookCommentsFetcher           *)
(*   src/instagram/instagram_fetcher.py  InstagramFetcher                  *)
(*                                                                         *)
(* Five specifications share the module's variables:                       *)
(*   SpecRetrieve  paginated retrieval of one post + normalization         *)
(*   SpecResolve   name-to-account resolution                              *)
(*   SpecAliases   the alias list of one pair                              *)
(*   SpecLink      one call of process_link, stage by stage                *)
(*   Spec          process_links over a batch of (client, link) pairs      *)
(***************************************************************************)
EXTENDS Integers, Sequences, FiniteSets, TLC

(***************************************************************************)
(* Bounds of the model.                                                    *)
(***************************************************************************)
\* largest cap (limit) handed to a retrieval
MaxCap == 3
\* largest number of items the server puts on one page
MaxPage == 2
\* number of items (comments and replies) the server holds for one post
MaxItems == 5
\* largest number of pages in the account listing
MaxAccounts == 2
\* largest number of (client, link) pairs in a batch
MaxPairs == 2
\* largest number of names in a comma-separated alias list
MaxAliases == 2

VARIABLES
    \* ---- retrieval of one post (get_facebook_comments / get_instagram_comments)
    platform,        \* "facebook" | "instagram"
    limit,           \* the cap argument
    rpc,             \* position: "top", "replies", "normalize", "done"
    all_comments,    \* accumulator of top-level comments
    next_page,       \* TRUE while a cursor (or the first URL) is pending
    data_defined,    \* facebook: the local `data` has been bound
    total_comments,  \* instagram counter
    total_replies,   \* instagram counter
    cidx,            \* 1-based position of the reply pass in all_comments
    in_reply,        \* a reply pagination loop is running for all_comments[cidx]
    all_replies,     \* accumulator of that loop
    result,          \* comments_with_replies / comments_with_complete_replies
    rows,            \* the normalized rows
    raised,          \* an exception left the retrieval function
    top_fetches,     \* page requests issued by the top-level loop
    reply_fetches,   \* page requests issued by reply loops
    nextid,          \* next unused payload token of the server
    late_failure,    \* history: a page fetch after the first of its loop failed
    slept,           \* time.sleep(1) has been called since the last page request
    last_request,    \* history: the latest page request, see PageRequest
    \* ---- account resolution
    pages,           \* the /me/accounts listing: sequence of [name, id]
    candidate,       \* the name handed to the resolver
    fb_resolved,     \* get_page_details_by_name has returned
    fb_account,      \* its result: <<>> for (None, None), else <<page id>>
    ig_resolved,     \* get_instagram_business_id has returned
    ig_page,         \* the page it selected: <<>> or <<page id>>
    ig_account,      \* its result: <<>> for None, else <<page id>>
    list_requests,   \* /me/accounts requests issued since the fetchers were built
    \* ---- the alias list of one pair
    aliases,         \* the names of the comma-separated list, in list order
    list_resolved,   \* get_page_details_by_name has returned for the whole list
    list_account,    \* its result
    ig_idx,          \* position of the name loop of InstagramFetcher.process_link
    ig_link_id,      \* ig_business_id when that loop has ended: <<>> or <<id>>
    ig_tried,        \* history: [page, outcome] per name the loop has tried
    fb_idx,          \* position of the name loop of FacebookCommentsFetcher.process_link
    fb_link_id,      \* page_id of the name whose post was processed: <<>> or <<id>>
    fb_tried,        \* history: [account, passed] per name the loop has tried
    \* ---- process_links
    batch,           \* the input table: sequence of [client, link]
    opc,             \* position: "main", "process_links", "instagram",
                     \* "facebook", "merge", "cleanup", "retry", "done"
    oidx,            \* 1-based position in the loop that is running
    ig_all,          \* ig_fetcher.all_comments
    ig_failed,       \* ig_fetcher.failed_links
    fb_all,          \* fb_fetcher.all_comments
    fb_failed,       \* fb_fetcher.failed_links
    comments_df,     \* the in-memory table
    columns,         \* the column labels of comments_df, in order
    week,            \* the 'week' column of comments_df, one entry per row
    combined_file,   \* the rows of the combined CSV, <<>> while unwritten
    failed_links,    \* the list the retry loop walks
    ret,             \* "running", "none" for (None, None), "table"
    cleanup,         \* cleanup_temp_files: "none" (not called), "ok", "failed"
    fb_files,        \* the files of the Facebook fetcher on disk, a subset
                     \* of {"csv", "backup"}
    otok,            \* next unused payload token
    calls,           \* history: one record per process_link call
    \* ---- one call of process_link, stage by stage
    link_platform,   \* "facebook" | "instagram"
    url_shape,       \* the form of the link, see FBUrlShapes and IGUrlShapes
    post_url,        \* the Facebook link as a sequence of fragments
    url_ids,         \* what extract_post_id_from_url returned for it
    client_kind,     \* the client argument: "string", "absent" (None or
                     \* another false value), "nonstring" (a number, nan)
    mapped_names,    \* number of names in the client's list
    name_idx,        \* 1-based position of the name loop
    lpc,             \* position: "resolve", "locate", "search", "retrieve",
                     \* "normalize", "merge", "returned"
    stage_log,       \* history: the stages entered for the current attempt
    failed_at,       \* history: the stage at which the latest attempt failed
    attempts,        \* history: per name tried on Facebook, the stage at
                     \* which its attempt failed, or "ok"
    page_found,      \* an account id is held for the current attempt
    post_id,         \* how the post or media id in use was obtained
    lookups,         \* validation lookups issued for a constructed id
    comment_requests,\* comment page requests issued
    link_result,     \* "pending", "rows", "empty" for [], "raised"
    link_failed,     \* the link was appended to self.failed_links
    media_code,      \* the code sought by the media search
    page_count,      \* media-listing pages requested by the search
    media_next,      \* the cursor the search follows next, 0 for none
    media_page,      \* the listing page handled last
    media_id,        \* the id the search returned, 0 for None
    match_passed     \* history: an item with the sought code was passed over

rvars == <<platform, limit, rpc, all_comments, next_page, data_defined,
           total_comments, total_replies, cidx, in_reply, all_replies,
           result, rows, raised, top_fetches, reply_fetches, nextid,
           late_failure, slept, last_request>>

aliasvars == <<aliases, list_resolved, list_account, ig_idx, ig_link_id,
               ig_tried, fb_idx, fb_link_id, fb_tried>>

avars == <<pages, candidate, fb_resolved, fb_account, ig_resolved, ig_page,
           ig_account, list_requests, aliasvars>>

ovars == <<batch, opc, oidx, ig_all, ig_failed, fb_all, fb_failed,
           comments_df, columns, week, combined_file, failed_links, ret,
           cleanup, fb_files, otok, calls>>

lvars == <<link_platform, url_shape, post_url, url_ids, client_kind,
           mapped_names, attempts, name_idx, lpc, stage_log,
           failed_at, page_found, post_id, lookups, comment_requests,
           link_result, link_failed, media_code, page_count, media_next,
           media_page, media_id, match_passed>>

vars == <<rvars, avars, ovars, lvars>>

\* what the steps of one component leave alone
nonretrieval == <<avars, ovars, lvars>>

nonresolve == <<rvars, ovars, lvars>>

nonorchestrator == <<rvars, avars, lvars>>

nonlink == <<rvars, avars, ovars>>

(***************************************************************************)
(* Decimal formatting, as str.format does it for non-negative integers.   *)
(***************************************************************************)
Digit(d) ==
    CASE d = 0 -> "0" [] d = 1 -> "1" [] d = 2 -> "2" [] d = 3 -> "3"
      [] d = 4 -> "4" [] d = 5 -> "5" [] d = 6 -> "6" [] d = 7 -> "7"
      [] d = 8 -> "8" [] d = 9 -> "9"

RECURSIVE IntToStr(_)
IntToStr(n) ==
    IF n < 10 THEN Digit(n) ELSE IntToStr(n \div 10) \o Digit(n % 10)

(***************************************************************************)
(* Record Normalizer.                                                      *)
(* A comment is [text, cc, has_replies, replies, more]:                    *)
(*   text         token standing for the payload (message, date, author)   *)
(* A row carries the token under `comment`, the value of the 'comment'     *)
(* column under `message` and the value of the 'author' column under       *)
(* `author`.                                                               *)
(*   cc           facebook comment_count                                   *)
(*   has_replies  the key 'replies' is present                             *)
(*   replies      the replies held under that key, each [text]             *)
(*   more         instagram: replies.paging.next is present                *)
(***************************************************************************)
\* the payload behind a token: the 'from' / 'username' entry and the
\* 'message' / 'text' entry are each present or missing
HasAuthor(tok) == tok % 4 \in {1, 3}

HasText(tok) == tok % 4 \in {1, 2}

\* comment.get('from', {}).get('name', 'Unknown') on Facebook,
\* comment.get('username', '') on Instagram
AuthorOf(tok, plat) ==
    IF HasAuthor(tok) THEN "user" \o IntToStr(tok)
    ELSE IF plat = "facebook" THEN "Unknown" ELSE ""

\* comment.get('message', '') on Facebook, comment.get('text', '') on
\* Instagram
MessageOf(tok) == IF HasText(tok) THEN "text" \o IntToStr(tok) ELSE ""

\* the reply index before the parent's sequence_id
SubIdSwapped(i, j) == IntToStr(j) \o "." \o IntToStr(i)

\* sub_id = f"{i}.{j}"
SubId(i, j) == IntToStr(i) \o "." \o IntToStr(j)

\* enumerate(comments) without the start value 1
MainRowZeroBased(i, comment, client, url, plat) ==
    [id |-> i - 1, sub_id |-> "", comment |-> comment.text,
     message |-> MessageOf(comment.text),
     author |-> AuthorOf(comment.text, plat),
     client |-> client, url |-> url, platform |-> plat]

\* main_comment of the i-th comment, `for i, comment in enumerate(comments, 1)`
MainRow(i, comment, client, url, plat) ==
    [id |-> i, sub_id |-> "", comment |-> comment.text,
     message |-> MessageOf(comment.text),
     author |-> AuthorOf(comment.text, plat),
     client |-> client, url |-> url, platform |-> plat]

ReplyRow(i, j, reply, client, url, plat) ==
    [id |-> i, sub_id |-> SubId(i, j), comment |-> reply.text,
     message |-> MessageOf(reply.text),
     author |-> AuthorOf(reply.text, plat),
     client |-> client, url |-> url, platform |-> plat]

\* the replies the normalizer walks for a comment
RepliesOf(comment) ==
    IF comment.has_replies THEN comment.replies ELSE <<>>

ReplyRows(i, comment, client, url, plat) ==
    LET rs == RepliesOf(comment)
    IN  [j \in 1..Len(rs) |-> ReplyRow(i, j, rs[j], client, url, plat)]

\* the replies of a comment emitted before the comment's own row
RECURSIVE FormatFromRepliesFirst(_, _, _, _, _)
FormatFromRepliesFirst(comments, i, client, url, plat) ==
    IF i > Len(comments) THEN <<>>
    ELSE ReplyRows(i, comments[i], client, url, plat)
         \o <<MainRow(i, comments[i], client, url, plat)>>
         \o FormatFromRepliesFirst(comments, i + 1, client, url, plat)

\* the rows of comments[i..], each comment followed by its replies
RECURSIVE FormatFrom(_, _, _, _, _)
FormatFrom(comments, i, client, url, plat) ==
    IF i > Len(comments) THEN <<>>
    ELSE <<MainRow(i, comments[i], client, url, plat)>>
         \o ReplyRows(i, comments[i], client, url, plat)
         \o FormatFrom(comments, i + 1, client, url, plat)

\* FacebookCommentsFetcher.format_comments_for_output
format_comments_for_output(comments, client, url) ==
    FormatFrom(comments, 1, client, url, "facebook")

\* the output loop of InstagramFetcher.get_instagram_comments: client and url
\* are left empty and filled in by process_link
output_comments(comments) ==
    FormatFrom(comments, 1, "", "", "instagram")

(***************************************************************************)
(* The server.  A response is [kind, shapes, more]:                        *)
(*   kind    "ok" (status 200), "http_error" (any other status),           *)
(*           "exception" (requests raised)                                 *)
(*   shapes  one entry per item of the `data` array                        *)
(*   more    paging.next is present                                        *)
(***************************************************************************)
\* facebook item: comment_count is 0 or positive
FBShapes == {"cc0", "cc1"}
\* instagram item: no 'replies' key; one embedded reply and no further
\* cursor; one embedded reply and a further cursor
IGShapes == {"none", "one", "one_more"}
ReplyShapes == {"reply"}

SeqsUpTo(S, n) == UNION {[1..k -> S] : k \in 0..n}

Embedded(shape) == IF shape \in {"one", "one_more"} THEN 1 ELSE 0

RECURSIVE TokensUsed(_)
TokensUsed(shapes) ==
    IF shapes = <<>> THEN 0
    ELSE 1 + Embedded(Head(shapes)) + TokensUsed(Tail(shapes))

MkComment(shape, tok) ==
    [text |-> tok,
     cc |-> IF shape = "cc1" THEN 1 ELSE 0,
     has_replies |-> shape \in {"one", "one_more"},
     replies |-> IF shape \in {"one", "one_more"}
                 THEN <<[text |-> tok + 1]>> ELSE <<>>,
     more |-> shape = "one_more"]

RECURSIVE MkPage(_, _)
MkPage(shapes, tok) ==
    IF shapes = <<>> THEN <<>>
    ELSE <<MkComment(Head(shapes), tok)>>
         \o MkPage(Tail(shapes), tok + 1 + Embedded(Head(shapes)))

MkReplies(shapes, tok) == [j \in 1..Len(shapes) |-> [text |-> tok + j - 1]]

Responses(S) ==
    { r \in [kind : {"ok", "http_error", "exception"},
             shapes : SeqsUpTo(S, MaxPage), more : BOOLEAN] :
        /\ r.kind # "ok" => (r.shapes = <<>> /\ ~r.more)
        /\ nextid + TokensUsed(r.shapes) <= MaxItems + 1 }

(***************************************************************************)
(* Account Resolver.  A name is a sequence of characters.                  *)
(***************************************************************************)
UpperChars == <<"A", "B", "C", "D", "E", "F", "G", "H", "I", "J", "K", "L", "M",
                "N", "O", "P", "Q", "R", "S", "T", "U", "V", "W", "X", "Y", "Z">>
LowerChars == <<"a", "b", "c", "d", "e", "f", "g", "h", "i", "j", "k", "l", "m",
                "n", "o", "p", "q", "r", "s", "t", "u", "v", "w", "x", "y", "z">>

LowerChar(c) ==
    IF \E i \in 1..Len(UpperChars) : UpperChars[i] = c
    THEN LowerChars[CHOOSE i \in 1..Len(UpperChars) : UpperChars[i] = c]
    ELSE c

\* str.lower
Lower(name) == [i \in 1..Len(name) |-> LowerChar(name[i])]

\* one row of the table of longest-common-subsequence lengths, from the
\* row `prev` of the prefix before the character ch (the cell of column c
\* is at index c + 1): ch stays unmatched, or is matched with an equal b[k]
LCSRow(prev, ch, b) ==
    [c \in 1..(Len(b) + 1) |->
        LET cand == {prev[c]} \cup
                    {prev[k] + 1 : k \in {k \in 1..(c - 1) : b[k] = ch}}
        IN  CHOOSE m \in cand : \A n \in cand : m >= n] \o <<>>

\* the row of the prefix a[1..i] against b
RECURSIVE LCSTable(_, _, _)
LCSTable(a, i, b) ==
    IF i = 0 THEN [c \in 1..(Len(b) + 1) |-> 0]
    ELSE LCSRow(LCSTable(a, i - 1, b), a[i], b)

\* length of the longest common subsequence of a[1..i] and b[1..j]
LCS(a, i, b, j) == LCSTable(a, i, SubSeq(b, 1, j))[j + 1]

\* int(round(100 * 2M/T)), Python's round: half to even
RoundedPercent(m, t) ==
    LET q == (200 * m) \div t
        r == (200 * m) % t
    IN  IF 2 * r > t THEN q + 1
        ELSE IF 2 * r < t THEN q
        ELSE IF q % 2 = 0 THEN q ELSE q + 1

\* fuzz.ratio: 100 for equal strings, 0 when one is empty, else the
\* similarity 2M/T of the two strings as a rounded percentage, M the number
\* of matched characters and T the total length
FuzzRatio(a, b) ==
    IF a = b THEN 100
    ELSE IF a = <<>> \/ b = <<>> THEN 0
    ELSE RoundedPercent(LCS(a, Len(a), b, Len(b)), Len(a) + Len(b))

\* the names of the listing in first-occurrence order, as dict keys are kept
RECURSIVE DictKeys(_)
DictKeys(ps) ==
    IF ps = <<>> THEN <<>>
    ELSE LET init == DictKeys(SubSeq(ps, 1, Len(ps) - 1))
             nm == ps[Len(ps)].name
         IN  IF \E i \in 1..Len(init) : init[i] = nm THEN init
             ELSE Append(init, nm)

\* get_facebook_page_id_and_token: page_dict[page_name] = {...}; a later
\* page of the same name overwrites the value of the earlier one
PageDict(ps) ==
    LET keys == DictKeys(ps)
        last(nm) == CHOOSE i \in 1..Len(ps) :
                       /\ ps[i].name = nm
                       /\ \A k \in (i + 1)..Len(ps) : ps[k].name # nm
    IN  [k \in 1..Len(keys) |-> [name |-> keys[k], id |-> ps[last(keys[k])].id]]

\* position of the first entry whose name equals `name` case-insensitively,
\* 0 when there is none
ExactIndex(entries, name) ==
    IF \E i \in 1..Len(entries) : Lower(entries[i].name) = Lower(name)
    THEN CHOOSE i \in 1..Len(entries) :
            /\ Lower(entries[i].name) = Lower(name)
            /\ \A k \in 1..(i - 1) : Lower(entries[k].name) # Lower(name)
    ELSE 0

\* the running maximum of `if score > best_score` over entries[1..n],
\* started from `best` = [score, idx]
RECURSIVE FuzzyScan(_, _, _, _)
FuzzyScan(entries, n, name, best) ==
    IF n = 0 THEN best
    ELSE LET b == FuzzyScan(entries, n - 1, name, best)
             score == FuzzRatio(Lower(name), Lower(entries[n].name))
         IN  IF score > b.score THEN [score |-> score, idx |-> n] ELSE b

\* FacebookCommentsFetcher.get_page_details_by_name over the split names:
\* an exact match of a name returns at once; the fuzzy maximum runs over all
\* names tried and is looked at after the loop
RECURSIVE FBNameLoop(_, _, _, _)
FBNameLoop(dict, names, k, best) ==
    IF k > Len(names)
    THEN IF best.idx # 0 /\ best.score > 30 THEN <<dict[best.idx].id>>
         ELSE <<>>
    ELSE LET e == ExactIndex(dict, names[k]) IN
         IF e # 0 THEN <<dict[e].id>>
         ELSE FBNameLoop(dict, names, k + 1,
                         FuzzyScan(dict, Len(dict), names[k], best))

\* a single pass that returns the first page that is exact or scores above 30
FirstAboveThreshold(ps, names) ==
    LET dict == PageDict(ps)
        ok(i) == \/ Lower(dict[i].name) = Lower(names[1])
                 \/ FuzzRatio(Lower(names[1]), Lower(dict[i].name)) > 30
    IN  IF \E i \in 1..Len(dict) : ok(i)
        THEN <<dict[CHOOSE i \in 1..Len(dict) :
                        ok(i) /\ \A k \in 1..(i - 1) : ~ok(k)].id>>
        ELSE <<>>

get_page_details_by_name(ps, names) ==
    FBNameLoop(PageDict(ps), names, 1, [score |-> 0, idx |-> 0])

\* the page selection with the threshold test `best_score >= 30`
SelectPageAtThreshold(ps, name) ==
    LET e == ExactIndex(ps, name)
        scanned == IF e # 0 THEN e - 1 ELSE Len(ps)
        best == FuzzyScan(ps, scanned, name, [score |-> 0, idx |-> 0])
    IN  IF e # 0 THEN <<ps[e].id>>
        ELSE IF best.score >= 30 THEN <<ps[best.idx].id>>
        ELSE <<>>

\* the page selection of InstagramFetcher.get_instagram_business_id: one
\* loop that stops at the first exact match and scores the pages before it
select_page(ps, name) ==
    LET e == ExactIndex(ps, name)
        scanned == IF e # 0 THEN e - 1 ELSE Len(ps)
        best == FuzzyScan(ps, scanned, name, [score |-> 0, idx |-> 0])
    IN  IF e # 0 THEN <<ps[e].id>>
        ELSE IF best.score > 30 THEN <<ps[best.idx].id>>
        ELSE <<>>

\* the account names and candidate names of the model
NameAcme == <<"A", "c", "m", "e">>
NameACME == <<"A", "C", "M", "E">>
NameAcmeCo == <<"A", "c", "m", "e", " ", "C", "o">>
NameAcne == <<"a", "c", "n", "e">>
NameZzqx == <<"Z", "z", "q", "x">>
NamePool == {NameAcme, NameACME, NameAcmeCo, NameAcne, NameZzqx}
\* a requested name and a page name that score exactly 30 against each
\* other (three matched characters of twenty)
NameZoe == <<"Z", "o", "e">>
NameZoneOfficeGroup ==
    <<"Z", "o", "n", "e", " ", "O", "f", "f", "i", "c", "e", " ",
      "G", "r", "o", "u", "p">>
\* the names pages carry and the names asked for
PageNames == NamePool \cup {NameZoneOfficeGroup}
CandidateNames == NamePool \cup {NameZoe}

\* listings of 1..n pages with the ids 1..n
Listings(n) ==
    UNION { { [i \in 1..k |-> [name |-> f[i], id |-> i]] :
                f \in [1..k -> PageNames] } : k \in 1..n }

\* process_link is not running
IdleLink ==
    /\ link_platform = "facebook"
    /\ url_shape = "other"
    /\ post_url = <<>>
    /\ url_ids = [done |-> FALSE, page_id |-> 0, post_id |-> 0]
    /\ client_kind = "string"
    /\ mapped_names = 1
    /\ name_idx = 1
    /\ lpc = "returned"
    /\ stage_log = <<>>
    /\ failed_at = "none"
    /\ attempts = <<>>
    /\ page_found = FALSE
    /\ post_id = "none"
    /\ lookups = 0
    /\ comment_requests = 0
    /\ link_result = "empty"
    /\ link_failed = FALSE
    /\ media_code = ""
    /\ page_count = 0
    /\ media_next = 0
    /\ media_page = <<>>
    /\ media_id = 0
    /\ match_passed = FALSE

\* no page has been requested yet
NoRequest ==
    [ctx |-> 0, cursor |-> FALSE, delayed |-> FALSE, held |-> 0,
     kind |-> "none", n |-> 0, more |-> FALSE, acc |-> 0,
     after_good |-> FALSE]

IdleOrchestrator ==
    /\ batch = <<>>
    /\ opc = "done"
    /\ oidx = 1
    /\ ig_all = <<>>
    /\ ig_failed = <<>>
    /\ fb_all = <<>>
    /\ fb_failed = <<>>
    /\ comments_df = <<>>
    /\ columns = <<>>
    /\ week = <<>>
    /\ combined_file = <<>>
    /\ failed_links = <<>>
    /\ ret = "none"
    /\ cleanup = "none"
    /\ fb_files = {}
    /\ otok = 1
    /\ calls = <<>>

\* no alias list is being resolved
IdleAliases ==
    /\ aliases = <<>>
    /\ list_resolved = FALSE
    /\ list_account = <<>>
    /\ ig_idx = 1
    /\ ig_link_id = <<>>
    /\ ig_tried = <<>>
    /\ fb_idx = 1
    /\ fb_link_id = <<>>
    /\ fb_tried = <<>>

IdleResolve ==
    /\ pages = <<>>
    /\ candidate = <<>>
    /\ fb_resolved = FALSE
    /\ fb_account = <<>>
    /\ ig_resolved = FALSE
    /\ ig_page = <<>>
    /\ ig_account = <<>>
    /\ list_requests = 0
    /\ IdleAliases

IdleRetrieve ==
    /\ platform = "facebook"
    /\ limit = 0
    /\ rpc = "done"
    /\ all_comments = <<>>
    /\ next_page = FALSE
    /\ data_defined = FALSE
    /\ total_comments = 0
    /\ total_replies = 0
    /\ cidx = 1
    /\ in_reply = FALSE
    /\ all_replies = <<>>
    /\ result = <<>>
    /\ rows = <<>>
    /\ raised = FALSE
    /\ top_fetches = 0
    /\ reply_fetches = 0
    /\ nextid = 1
    /\ late_failure = FALSE
    /\ slept = FALSE
    /\ last_request = NoRequest

InitResolve ==
    /\ pages \in Listings(MaxAccounts)
    /\ candidate \in CandidateNames
    /\ fb_resolved = FALSE
    /\ fb_account = <<>>
    /\ ig_resolved = FALSE
    /\ ig_page = <<>>
    /\ ig_account = <<>>
    /\ list_requests = 1
    /\ IdleAliases
    /\ IdleRetrieve
    /\ IdleOrchestrator
    /\ IdleLink

\* process_link: page_id, page_token = self.get_page_details_by_name(name)
ResolveFB ==
    /\ pages # <<>> /\ ~fb_resolved
    /\ fb_account' = get_page_details_by_name(pages, <<candidate>>)
    /\ fb_resolved' = TRUE
    /\ UNCHANGED <<pages, candidate, ig_resolved, ig_page, ig_account,
                   list_requests, aliasvars>>
    /\ UNCHANGED nonresolve

\* get_instagram_business_id(access_token, name): the listing is requested,
\* the page is selected, then its instagram_business_account is looked up;
\* the page may have none
ResolveIG ==
    /\ pages # <<>> /\ ~ig_resolved
    /\ list_requests' = list_requests + 1
    /\ ig_page' = select_page(pages, candidate)
    /\ \E connected \in BOOLEAN :
          ig_account' = IF connected THEN ig_page' ELSE <<>>
    /\ ig_resolved' = TRUE
    /\ UNCHANGED <<pages, candidate, fb_resolved, fb_account, aliasvars>>
    /\ UNCHANGED nonresolve

NextResolve ==
    \/ ResolveFB
    \/ ResolveIG

SpecResolve == InitResolve /\ [][NextResolve]_vars

(***************************************************************************)
(* Resolution of a comma-separated alias list (SpecAliases): the list      *)
(* handed whole to get_page_details_by_name, and the name loops of the two *)
(* process_link methods, which split the list themselves.                  *)
(***************************************************************************)
\* the names asked for and the names pages carry in these runs
AliasNames == {NameAcme, NameAcne, NameZzqx, NameZoe}
AliasPageNames == {NameAcme, NameAcmeCo, NameZzqx}

\* [name.strip() for name in client.split(',')]
AliasLists == UNION {[1..k -> AliasNames] : k \in 1..MaxAliases}

\* both fetchers have been built: FacebookCommentsFetcher.__init__ has
\* requested the listing once and keeps it in page_dict,
\* InstagramFetcher.__init__ has requested nothing
InitAliases ==
    /\ pages \in {ps \in Listings(MaxAccounts) :
                    \A i \in 1..Len(ps) : ps[i].name \in AliasPageNames}
    /\ aliases \in AliasLists
    /\ candidate = aliases[1]
    /\ fb_resolved = FALSE
    /\ fb_account = <<>>
    /\ ig_resolved = FALSE
    /\ ig_page = <<>>
    /\ ig_account = <<>>
    /\ list_requests = 1
    /\ list_resolved = FALSE
    /\ list_account = <<>>
    /\ ig_idx = 1
    /\ ig_link_id = <<>>
    /\ ig_tried = <<>>
    /\ fb_idx = 1
    /\ fb_link_id = <<>>
    /\ fb_tried = <<>>
    /\ IdleRetrieve
    /\ IdleOrchestrator
    /\ IdleLink

\* get_page_details_by_name(page_name) with the whole list as page_name
ResolveList ==
    /\ ~list_resolved
    /\ list_account' = get_page_details_by_name(pages, aliases)
    /\ list_resolved' = TRUE
    /\ UNCHANGED <<pages, candidate, fb_resolved, fb_account, ig_resolved,
                   ig_page, ig_account, list_requests, aliases, ig_idx,
                   ig_link_id, ig_tried, fb_idx, fb_link_id, fb_tried>>
    /\ UNCHANGED nonresolve

\* what one call of get_instagram_business_id can meet once the page
\* selection has given `sel`: the listing request fails; no page is
\* selected; the page has no instagram_business_account; it has one
IGLookups(sel) ==
    IF sel = <<>> THEN {"listing_error", "no_page"}
    ELSE {"listing_error", "no_ig_account", "connected"}

\* the name loop of InstagramFetcher.process_link has ended
IGLoopDone == ig_link_id # <<>> \/ ig_idx > Len(aliases)

\* one iteration of `for name in mapped_names` in
\* InstagramFetcher.process_link: get_instagram_business_id(access_token,
\* name) requests the listing, and the loop breaks on an id
IGTryAlias ==
    /\ list_resolved /\ ~IGLoopDone
    /\ LET sel == select_page(pages, aliases[ig_idx]) IN
       \E o \in IGLookups(sel) :
          /\ list_requests' = list_requests + 1
          /\ ig_tried' = Append(ig_tried,
                 [page |-> IF o = "listing_error" THEN <<>> ELSE sel,
                  outcome |-> o])
          /\ IF o = "connected"
             THEN ig_link_id' = sel /\ UNCHANGED ig_idx
             ELSE ig_idx' = ig_idx + 1 /\ UNCHANGED ig_link_id
    /\ UNCHANGED <<pages, candidate, fb_resolved, fb_account, ig_resolved,
                   ig_page, ig_account, aliases, list_resolved, list_account,
                   fb_idx, fb_link_id, fb_tried>>
    /\ UNCHANGED nonresolve

\* the name loop of FacebookCommentsFetcher.process_link has ended
FBLoopDone == fb_link_id # <<>> \/ fb_idx > Len(aliases)

\* one iteration of `for name in mapped_names` in
\* FacebookCommentsFetcher.process_link: the name is resolved against
\* page_dict; `continue` when no page is found, when the post is not
\* found or when it has no comments; else the method returns
FBTryAlias ==
    /\ IGLoopDone /\ list_resolved /\ ~FBLoopDone
    /\ LET acct == get_page_details_by_name(pages, <<aliases[fb_idx]>>) IN
       \E passed \in (IF acct = <<>> THEN {FALSE} ELSE BOOLEAN) :
          /\ fb_tried' = Append(fb_tried,
                                [account |-> acct, passed |-> passed])
          /\ IF passed
             THEN fb_link_id' = acct /\ UNCHANGED fb_idx
             ELSE fb_idx' = fb_idx + 1 /\ UNCHANGED fb_link_id
    /\ UNCHANGED <<pages, candidate, fb_resolved, fb_account, ig_resolved,
                   ig_page, ig_account, list_requests, aliases, list_resolved,
                   list_account, ig_idx, ig_link_id, ig_tried>>
    /\ UNCHANGED nonresolve

NextAliases ==
    \/ ResolveList
    \/ IGTryAlias
    \/ FBTryAlias

SpecAliases == InitAliases /\ [][NextAliases]_vars

(***************************************************************************)
(* One call of process_link, stage by stage (SpecLink).                    *)
(* An id in use is described by how it was obtained:                       *)
(*   "url"          page id and post id both read from the link            *)
(*   "constructed"  resolved page id joined to the id read from the link   *)
(*   "validated"    a constructed id the lookup answered with status 200   *)
(*   "feed"         the id of a feed post whose permalink holds the link   *)
(*   "search"       the id of the media item the media search returned     *)
(***************************************************************************)
\* the forms extract_post_id_from_url tells apart, and any other link
FBUrlShapes == {"underscore", "reel", "permalink", "video", "other"}

\* /p/<code>, /reel/<code>, and a link with neither
IGUrlShapes == {"p", "reel", "other"}

\* A Facebook link is a sequence of fragments, each the text one pattern of
\* extract_post_id_from_url matches, or text none of them matches.  a and b
\* are the two digit groups of the fragment in the order of the text: page
\* and post id for <page>_<post>, story_fbid and id for permalink.php; the
\* reel and video.php fragments have the one group a.
MaxFragments == 2

Fragment(kind, v) == [kind |-> kind, a |-> 10 * v + 1, b |-> 10 * v + 2]

NoFragment == [kind |-> "other", a |-> 0, b |-> 0]

Fragments ==
    { Fragment(k, v) : k \in FBUrlShapes \ {"other"}, v \in 1..2 }
        \cup {NoFragment}

FBUrls == SeqsUpTo(Fragments, MaxFragments) \ {<<>>}

\* re.search(pattern, url): the leftmost place the pattern matches, 0 for
\* no match
Search(kind, url) ==
    IF \E i \in 1..Len(url) : url[i].kind = kind
    THEN CHOOSE i \in 1..Len(url) :
            /\ url[i].kind = kind
            /\ \A k \in 1..(i - 1) : url[k].kind # kind
    ELSE 0

\* None of the returned tuple is 0
IdPair(page, post) == [page_id |-> page, post_id |-> post]

\* the ids of the leftmost fragment that any pattern matches
ExtractLeftmost(url) ==
    LET hit == { i \in 1..Len(url) : url[i].kind # "other" } IN
    IF hit = {} THEN IdPair(0, 0)
    ELSE LET f == url[CHOOSE i \in hit : \A k \in hit : i <= k] IN
         CASE f.kind = "underscore" -> IdPair(f.a, f.b)
           [] f.kind = "reel" -> IdPair(0, f.a)
           [] f.kind = "permalink" -> IdPair(f.b, f.a)
           [] f.kind = "video" -> IdPair(0, f.a)

\* extract_post_id_from_url(url): (page_id, post_id)
extract_post_id_from_url(url) ==
    LET underscore_match == Search("underscore", url)
        reel_match == Search("reel", url)
        permalink_match == Search("permalink", url)
        video_match == Search("video", url)
    IN  IF underscore_match # 0
        THEN IdPair(url[underscore_match].a, url[underscore_match].b)
        ELSE IF reel_match # 0
        THEN IdPair(0, url[reel_match].a)
        ELSE IF permalink_match # 0
        THEN IdPair(url[permalink_match].b, url[permalink_match].a)
        ELSE IF video_match # 0
        THEN IdPair(0, url[video_match].a)
        ELSE IdPair(0, 0)

\* the pattern whose match extract_post_id_from_url returns
MatchedShape(url) ==
    IF Search("underscore", url) # 0 THEN "underscore"
    ELSE IF Search("reel", url) # 0 THEN "reel"
    ELSE IF Search("permalink", url) # 0 THEN "permalink"
    ELSE IF Search("video", url) # 0 THEN "video"
    ELSE "other"

\* find_post_by_url_or_content(page_id, page_token, post_url, None) with a
\* page_id: the id the link gives is validated by a lookup, and by a second
\* one in the alternative format when the page id was not in the link;
\* else the feed is searched for the link.  valid and alt_valid are the
\* answers of the lookups, in_feed that of the feed.  The result is
\* [id, lookups].
find_post_by_url_or_content(url, valid, alt_valid, in_feed) ==
    LET ex == extract_post_id_from_url(url)
        feed == IF in_feed THEN "feed" ELSE "none"
    IN  IF ex.post_id = 0 THEN [id |-> feed, lookups |-> 0]
        ELSE IF valid THEN [id |-> "validated", lookups |-> 1]
        ELSE IF ex.page_id = 0
        THEN [id |-> IF alt_valid THEN "validated" ELSE feed, lookups |-> 2]
        ELSE [id |-> feed, lookups |-> 1]

\* max_pages of search_instagram_media_with_extensive_pagination
max_pages == 30

\* the media code of the link, a code that extends it and one that differs
\* in case; "" stands for a permalink with neither /p/ nor /reel/
SoughtCode == "Cx"

ListedCodes == {SoughtCode, "Cxy", "cx", ""}

\* the answers to a media-listing request: [kind, codes, more]
MediaPages ==
    { r \in [kind : {"ok", "http_error", "exception"},
             codes : SeqsUpTo(ListedCodes, MaxPage), more : BOOLEAN] :
        r.kind # "ok" => (r.codes = <<>> /\ ~r.more) }

\* media.get('id') of the item at position i of listing page p
ItemId(p, i) == p * (MaxPage + 1) + i

\* `if extracted_code:` ... `if media_code == extracted_code:`
Matches(code, sought) == code # "" /\ code = sought

\* the position of the first item of the page whose permalink code is the
\* sought code, 0 when there is none
FirstMatch(codes, sought) ==
    IF \E i \in 1..Len(codes) : Matches(codes[i], sought)
    THEN CHOOSE i \in 1..Len(codes) :
            /\ Matches(codes[i], sought)
            /\ \A k \in 1..(i - 1) : ~Matches(codes[k], sought)
    ELSE 0

InitLink ==
    /\ link_platform \in {"facebook", "instagram"}
    /\ post_url \in (IF link_platform = "facebook" THEN FBUrls ELSE {<<>>})
    /\ url_shape \in (IF link_platform = "facebook"
                       THEN {MatchedShape(post_url)} ELSE IGUrlShapes)
    /\ url_ids = [done |-> FALSE, page_id |-> 0, post_id |-> 0]
    /\ client_kind \in {"string", "absent", "nonstring"}
    /\ mapped_names \in (IF client_kind = "string" THEN 1..MaxAliases
                          ELSE {0})
    /\ name_idx = 1
    /\ lpc = "start"
    /\ stage_log = <<>>
    /\ failed_at = "none"
    /\ attempts = <<>>
    /\ page_found = FALSE
    /\ post_id = "none"
    /\ lookups = 0
    /\ comment_requests = 0
    /\ link_result = "pending"
    /\ link_failed = FALSE
    /\ media_code = ""
    /\ page_count = 0
    /\ media_next = 0
    /\ media_page = <<>>
    /\ media_id = 0
    /\ match_passed = FALSE
    /\ IdleRetrieve
    /\ IdleResolve
    /\ IdleOrchestrator

\* process_link with a client that is no string taken as one name
StartCoercesClient ==
    /\ lpc = "start"
    /\ lpc' = "resolve"
    /\ media_code' = (IF link_platform = "instagram" THEN SoughtCode
                      ELSE media_code)
    /\ UNCHANGED <<link_platform, url_shape, post_url, url_ids, client_kind,
                   mapped_names, name_idx, stage_log, failed_at, page_found,
                   post_id, lookups, comment_requests, link_result,
                   link_failed, page_count, media_next, media_page, media_id,
                   match_passed>>
    /\ UNCHANGED attempts
    /\ UNCHANGED nonlink

\* process_link up to its name loop.  On Instagram the media code is read
\* from the link first, and a link without one returns [].  A client that
\* is false or is no string leaves no name to try: [] is returned, and on
\* Facebook the link is appended to self.failed_links.
Start ==
    /\ lpc = "start"
    /\ IF link_platform = "instagram" /\ url_shape = "other"
       THEN /\ lpc' = "returned"
            /\ link_result' = "empty"
            /\ failed_at' = "start"
            /\ UNCHANGED <<media_code, link_failed>>
       ELSE /\ media_code' = (IF link_platform = "instagram" THEN SoughtCode
                              ELSE media_code)
            /\ IF client_kind = "string"
               THEN /\ lpc' = "resolve"
                    /\ UNCHANGED <<link_result, failed_at, link_failed>>
               ELSE /\ lpc' = "returned"
                    /\ link_result' = "empty"
                    /\ failed_at' = "start"
                    /\ link_failed' = (link_platform = "facebook")
    /\ UNCHANGED <<link_platform, url_shape, post_url, url_ids, client_kind,
                   mapped_names, name_idx, stage_log, page_found, post_id,
                   lookups, comment_requests, page_count, media_next,
                   media_page, media_id, match_passed>>
    /\ UNCHANGED attempts
    /\ UNCHANGED nonlink

\* a failed stage that lets the attempt go on to the retrieval
NextNameNoContinue(stage) ==
    /\ failed_at' = stage
    /\ attempts' = Append(attempts, stage)
    /\ lpc' = "retrieve"
    /\ UNCHANGED <<page_found, name_idx, link_result, link_failed>>

\* a failed stage that ends the call at once
NextNameGivesUp(stage) ==
    /\ failed_at' = stage
    /\ attempts' = Append(attempts, stage)
    /\ page_found' = FALSE
    /\ lpc' = "returned"
    /\ link_result' = "empty"
    /\ link_failed' = TRUE
    /\ UNCHANGED name_idx

\* the attempt for the current name has failed at `stage`: `continue`,
\* and after the last name the link is recorded and [] returned
NextName(stage) ==
    /\ failed_at' = stage
    /\ attempts' = Append(attempts, stage)
    /\ page_found' = FALSE
    /\ IF name_idx < mapped_names
       THEN /\ name_idx' = name_idx + 1
            /\ lpc' = "resolve"
            /\ UNCHANGED <<link_result, link_failed>>
       ELSE /\ lpc' = "returned"
            /\ link_result' = "empty"
            /\ link_failed' = TRUE
            /\ UNCHANGED name_idx

\* facebook: get_page_details_by_name(name) for the current name
FBResolve ==
    /\ link_platform = "facebook" /\ lpc = "resolve"
    /\ stage_log' = <<"resolve">>
    /\ post_id' = "none"
    /\ \E found \in BOOLEAN :
          IF found
          THEN /\ page_found' = TRUE
               /\ lpc' = "locate"
               /\ UNCHANGED <<failed_at, name_idx, link_result, link_failed, attempts>>
          ELSE NextName("resolve")
    /\ UNCHANGED <<link_platform, url_shape, post_url, client_kind, mapped_names, lookups,
                   comment_requests, media_code, page_count, media_next,
                   media_page, media_id, match_passed>>
    /\ UNCHANGED url_ids
    /\ UNCHANGED nonlink

\* facebook: the full post id is put together from the link and the
\* resolved page, and the post is searched for only when the link gives
\* no post id
FBLocate ==
    /\ link_platform = "facebook" /\ lpc = "locate"
    /\ stage_log' = Append(stage_log, "locate")
    /\ url_ids' = [done |-> TRUE,
                   page_id |-> extract_post_id_from_url(post_url).page_id,
                   post_id |-> extract_post_id_from_url(post_url).post_id]
    /\ LET ex == extract_post_id_from_url(post_url) IN
       IF ex.page_id # 0 /\ ex.post_id # 0
       THEN /\ post_id' = "url"
            /\ lpc' = "retrieve"
            /\ UNCHANGED <<lookups, failed_at, page_found, name_idx,
                           link_result, link_failed, attempts>>
       ELSE IF page_found /\ ex.post_id # 0
       THEN /\ post_id' = "constructed"
            /\ lpc' = "retrieve"
            /\ UNCHANGED <<lookups, failed_at, page_found, name_idx,
                           link_result, link_failed, attempts>>
       ELSE \E valid, alt_valid, in_feed \in BOOLEAN :
            LET f == find_post_by_url_or_content(post_url, valid,
                                                 alt_valid, in_feed)
            IN  /\ lookups' = lookups + f.lookups
                /\ post_id' = f.id
                /\ IF f.id # "none"
                   THEN /\ lpc' = "retrieve"
                        /\ UNCHANGED <<failed_at, page_found, name_idx,
                                       link_result, link_failed, attempts>>
                   ELSE NextName("locate")
    /\ UNCHANGED <<link_platform, url_shape, post_url, client_kind, mapped_names,
                   comment_requests, media_code, page_count, media_next, media_page, media_id,
                   match_passed>>
    /\ UNCHANGED nonlink

\* instagram: get_instagram_business_id(access_token, name) for the
\* current name; the loop breaks on an id, and its else branch returns []
IGResolve ==
    /\ link_platform = "instagram" /\ lpc = "resolve"
    /\ stage_log' = <<"resolve">>
    /\ \E o \in {"found", "none", "exception"} :
          CASE o = "found" ->
                  /\ page_found' = TRUE
                  /\ lpc' = "search"
                  /\ media_next' = 1
                  /\ UNCHANGED <<failed_at, name_idx, link_result>>
            [] o = "none" ->
                  /\ failed_at' = "resolve"
                  /\ UNCHANGED <<page_found, media_next>>
                  /\ IF name_idx < mapped_names
                     THEN /\ name_idx' = name_idx + 1
                          /\ UNCHANGED <<lpc, link_result>>
                     ELSE /\ lpc' = "returned"
                          /\ link_result' = "empty"
                          /\ UNCHANGED name_idx
            [] o = "exception" ->
                  /\ failed_at' = "resolve"
                  /\ lpc' = "returned"
                  /\ link_result' = "raised"
                  /\ UNCHANGED <<page_found, media_next, name_idx>>
    /\ UNCHANGED <<link_platform, url_shape, post_url, client_kind, mapped_names, post_id, lookups,
                   comment_requests, link_failed, media_code, page_count,
                   media_page, media_id, match_passed>>
    /\ UNCHANGED url_ids
    /\ UNCHANGED attempts
    /\ UNCHANGED nonlink

\* `while next_page and not media_id and page_count < max_pages`
SearchCond == media_next # 0 /\ media_id = 0 /\ page_count < max_pages

\* one iteration of the loop of
\* search_instagram_media_with_extensive_pagination
IGSearch ==
    /\ link_platform = "instagram" /\ lpc = "search" /\ SearchCond
    /\ page_count' = page_count + 1
    /\ stage_log' = (IF page_count = 0 THEN Append(stage_log, "locate")
                     ELSE stage_log)
    /\ \E r \in MediaPages :
          LET m == FirstMatch(r.codes, media_code) IN
          /\ media_page' = r.codes
          /\ match_passed' =
                (match_passed \/
                   \E i \in 1..Len(r.codes) :
                      /\ r.codes[i] = media_code
                      /\ (m = 0 \/ i < m))
          /\ CASE r.kind = "exception" ->
                    /\ failed_at' = "locate"
                    /\ lpc' = "returned"
                    /\ link_result' = "raised"
                    /\ UNCHANGED <<media_next, media_id, post_id>>
               [] r.kind = "http_error" ->
                    \* return None, None; process_link returns []
                    /\ failed_at' = "locate"
                    /\ lpc' = "returned"
                    /\ link_result' = "empty"
                    /\ UNCHANGED <<media_next, media_id, post_id>>
               [] r.kind = "ok" /\ m # 0 ->
                    /\ media_id' = ItemId(page_count', m)
                    /\ post_id' = "search"
                    /\ lpc' = "retrieve"
                    /\ UNCHANGED <<media_next, failed_at, link_result>>
               [] r.kind = "ok" /\ m = 0 ->
                    /\ media_next' = (IF r.more THEN media_next + 1 ELSE 0)
                    /\ UNCHANGED <<media_id, post_id, lpc, failed_at,
                                   link_result>>
    /\ UNCHANGED <<link_platform, url_shape, post_url, client_kind, mapped_names, name_idx,
                   page_found, lookups, comment_requests, link_failed,
                   media_code>>
    /\ UNCHANGED url_ids
    /\ UNCHANGED attempts
    /\ UNCHANGED nonlink

\* the loop ends without a match: the oembed request changes nothing,
\* (None, None) is returned and process_link returns []
IGSearchExit ==
    /\ link_platform = "instagram" /\ lpc = "search" /\ ~SearchCond
    /\ failed_at' = "locate"
    /\ lpc' = "returned"
    /\ link_result' = "empty"
    /\ UNCHANGED <<link_platform, url_shape, post_url, client_kind, mapped_names, name_idx,
                   stage_log, page_found, post_id, lookups, comment_requests,
                   link_failed, media_code, page_count, media_next,
                   media_page, media_id, match_passed>>
    /\ UNCHANGED url_ids
    /\ UNCHANGED attempts
    /\ UNCHANGED nonlink

\* get_facebook_comments / get_instagram_comments for the id in use: at
\* least one comment page is requested; the Facebook method returns a
\* list whatever happens, the Instagram one lets an exception through
Retrieve ==
    /\ lpc = "retrieve"
    /\ stage_log' = Append(stage_log, "retrieve")
    /\ \E n \in 1..MaxPage :
          comment_requests' = comment_requests + n
    /\ \E o \in (IF link_platform = "facebook" THEN {"comments", "none"}
                  ELSE {"comments", "none", "exception"}) :
          CASE o = "comments" ->
                  /\ lpc' = "normalize"
                  /\ UNCHANGED <<failed_at, page_found, name_idx,
                                 link_result, link_failed, attempts>>
            [] o = "none" /\ link_platform = "facebook" ->
                  NextName("retrieve")
            [] o = "none" /\ link_platform = "instagram" ->
                  /\ failed_at' = "retrieve"
                  /\ lpc' = "returned"
                  /\ link_result' = "empty"
                  /\ UNCHANGED <<page_found, name_idx, link_failed,
                                 attempts>>
            [] o = "exception" ->
                  /\ failed_at' = "retrieve"
                  /\ lpc' = "returned"
                  /\ link_result' = "raised"
                  /\ UNCHANGED <<page_found, name_idx, link_failed,
                                 attempts>>
    /\ UNCHANGED <<link_platform, url_shape, post_url, client_kind, mapped_names, post_id, lookups,
                   media_code, page_count, media_next, media_page, media_id,
                   match_passed>>
    /\ UNCHANGED url_ids
    /\ UNCHANGED nonlink

\* the comments are formatted into rows
NormalizeLink ==
    /\ lpc = "normalize"
    /\ stage_log' = Append(stage_log, "normalize")
    /\ lpc' = "merge"
    /\ UNCHANGED <<link_platform, url_shape, post_url, client_kind, mapped_names, name_idx,
                   failed_at, page_found, post_id, lookups, comment_requests,
                   link_result, link_failed, media_code, page_count,
                   media_next, media_page, media_id, match_passed>>
    /\ UNCHANGED url_ids
    /\ UNCHANGED attempts
    /\ UNCHANGED nonlink

\* self.all_comments.extend(...) and the return of the rows
MergeLink ==
    /\ lpc = "merge"
    /\ stage_log' = Append(stage_log, "merge")
    /\ lpc' = "returned"
    /\ link_result' = "rows"
    /\ UNCHANGED <<link_platform, url_shape, post_url, client_kind, mapped_names, name_idx,
                   failed_at, page_found, post_id, lookups, comment_requests,
                   link_failed, media_code, page_count, media_next,
                   media_page, media_id, match_passed>>
    /\ UNCHANGED url_ids
    /\ attempts' = (IF link_platform = "facebook"
                     THEN Append(attempts, "ok") ELSE attempts)
    /\ UNCHANGED nonlink

NextLink ==
    \/ Start
    \/ FBResolve
    \/ FBLocate
    \/ IGResolve
    \/ IGSearch
    \/ IGSearchExit
    \/ Retrieve
    \/ NormalizeLink
    \/ MergeLink

SpecLink == InitLink /\ [][NextLink]_vars

(***************************************************************************)
(* Paginated Comment Retriever.                                            *)
(***************************************************************************)
InitRetrieve ==
    /\ platform \in {"facebook", "instagram"}
    /\ limit \in 0..MaxCap
    /\ rpc = "top"
    /\ all_comments = <<>>
    /\ next_page = TRUE
    /\ data_defined = FALSE
    /\ total_comments = 0
    /\ total_replies = 0
    /\ cidx = 1
    /\ in_reply = FALSE
    /\ all_replies = <<>>
    /\ result = <<>>
    /\ rows = <<>>
    /\ raised = FALSE
    /\ top_fetches = 0
    /\ reply_fetches = 0
    /\ nextid = 1
    /\ late_failure = FALSE
    /\ slept = FALSE
    /\ last_request = NoRequest
    /\ IdleResolve
    /\ IdleOrchestrator
    /\ IdleLink

\* `while next_page and (limit is None or len(all_comments) < limit)`
FBTopCond == next_page /\ Len(all_comments) < limit

\* the loop condition without the cap
IGTopCondNoCap == next_page

\* `while next_page and (limit is None or total_comments < limit)`
IGTopCond == next_page /\ total_comments < limit

\* `while next_replies_url and (limit is None or
\*        total_comments + total_replies < limit)`; the cursor is pending
\* whenever the loop head is reached
IGReplyCond == total_comments + total_replies < limit

RECURSIVE HeldReplies(_, _)
HeldReplies(comments, n) ==
    IF n = 0 THEN 0
    ELSE Len(RepliesOf(comments[n])) + HeldReplies(comments, n - 1)

\* the items held when a page is requested: the top-level comments, the
\* replies attached so far and those of the running reply loop; on
\* Instagram also the replies that came embedded in the top-level pages
Held ==
    IF platform = "instagram" THEN nextid - 1
    ELSE Len(all_comments) + Len(all_replies)
         + HeldReplies(result, Len(result))

\* a page that lets its loop go on: fetched with status 200, not empty,
\* with a next cursor, and leaving the accumulator below the cap
GoodPage(q) ==
    q.kind = "ok" /\ q.n > 0 /\ q.more /\ q.acc < limit

\* the record kept of the latest page request: ctx is 0 for the top-level
\* loop and the position of the parent comment for a reply loop; cursor
\* says that the URL was taken from a paging.next entry; delayed that a
\* sleep was taken since the request before; held counts the items held
\* when the request was made; kind, n and more describe the response; acc
\* is the length of the loop's accumulator after the response was
\* handled; after_good says that the request before it was a GoodPage of
\* the same loop
PageRequest(ctx, cursor, r, acc) ==
    [ctx |-> ctx, cursor |-> cursor, delayed |-> slept, held |-> Held,
     kind |-> r.kind, n |-> Len(r.shapes), more |-> r.more, acc |-> acc,
     after_good |-> (last_request.kind # "none" /\ last_request.ctx = ctx
                       /\ GoodPage(last_request))]

\* facebook: control leaves the top-level loop.  `data.get(...)` raises
\* NameError when no response was ever parsed; `except Exception` then
\* returns all_comments, which is empty in that case.
FBAfterTop ==
    IF data_defined'
    THEN /\ rpc' = "replies"
         /\ result' = <<>>
    ELSE /\ rpc' = "normalize"
         /\ result' = all_comments'

\* one iteration of the top-level loop of get_facebook_comments
FBTopFetch ==
    /\ platform = "facebook" /\ rpc = "top" /\ FBTopCond
    /\ \E r \in Responses(FBShapes) :
        /\ top_fetches' = top_fetches + 1
        /\ nextid' = nextid + TokensUsed(r.shapes)
        /\ late_failure' = (late_failure \/ (r.kind # "ok" /\ top_fetches > 0))
        /\ last_request' =
               PageRequest(0, top_fetches > 0, r,
                           Len(all_comments) + Len(r.shapes))
        /\ slept' = (r.kind = "ok" /\ r.shapes # <<>> /\ r.more
                        /\ Len(all_comments) + Len(r.shapes) < limit)
        /\ CASE r.kind = "exception" ->
                  \* except RequestException: return all_comments
                  /\ rpc' = "normalize"
                  /\ result' = all_comments
                  /\ UNCHANGED <<all_comments, next_page, data_defined>>
             [] r.kind = "http_error" ->
                  /\ UNCHANGED <<all_comments, next_page, data_defined>>
                  /\ FBAfterTop
             [] r.kind = "ok" /\ r.shapes = <<>> ->
                  /\ data_defined' = TRUE
                  /\ UNCHANGED <<all_comments, next_page>>
                  /\ FBAfterTop
             [] r.kind = "ok" /\ r.shapes # <<>> ->
                  /\ data_defined' = TRUE
                  /\ all_comments' = all_comments \o MkPage(r.shapes, nextid)
                  /\ IF Len(all_comments') >= limit
                     THEN /\ UNCHANGED next_page
                          /\ FBAfterTop
                     ELSE /\ next_page' = r.more
                          /\ UNCHANGED <<rpc, result>>
    /\ UNCHANGED nonretrieval
    /\ UNCHANGED <<platform, limit, total_comments, total_replies, cidx,
                   in_reply, all_replies, rows, raised, reply_fetches>>

\* the loop condition is false at the loop head
FBTopExit ==
    /\ platform = "facebook" /\ rpc = "top" /\ ~FBTopCond
    /\ UNCHANGED <<all_comments, next_page, data_defined>>
    /\ FBAfterTop
    /\ UNCHANGED nonretrieval
    /\ UNCHANGED <<late_failure, slept, last_request>>
    /\ UNCHANGED <<platform, limit, total_comments, total_replies, cidx,
                   in_reply, all_replies, rows, raised, top_fetches,
                   reply_fetches, nextid>>

\* comment['replies'] = replies; comments_with_replies.append(comment)
Attach(comment, replies) ==
    [comment EXCEPT !.has_replies = TRUE, !.replies = replies, !.more = FALSE]

\* facebook reply pass: the next comment of `for comment in all_comments`
FBRepliesNext ==
    /\ platform = "facebook" /\ rpc = "replies" /\ ~in_reply
    /\ cidx <= Len(all_comments)
    /\ IF all_comments[cidx].cc > 0
       THEN \* get_comment_replies is entered
            /\ in_reply' = TRUE
            /\ all_replies' = <<>>
            /\ UNCHANGED <<cidx, result>>
       ELSE /\ result' = Append(result, Attach(all_comments[cidx], <<>>))
            /\ cidx' = cidx + 1
            /\ UNCHANGED <<in_reply, all_replies>>
    /\ UNCHANGED nonretrieval
    /\ UNCHANGED <<late_failure, slept, last_request>>
    /\ UNCHANGED <<platform, limit, rpc, all_comments, next_page,
                   data_defined, total_comments, total_replies, rows, raised,
                   top_fetches, reply_fetches, nextid>>

\* get_comment_replies returns `replies` for all_comments[cidx]
FBReturnReplies(replies) ==
    /\ result' = Append(result, Attach(all_comments[cidx], replies))
    /\ cidx' = cidx + 1
    /\ in_reply' = FALSE
    /\ all_replies' = <<>>

\* one iteration of `while next_page` in get_comment_replies
FBReplyFetch ==
    /\ platform = "facebook" /\ rpc = "replies" /\ in_reply
    /\ \E r \in Responses(ReplyShapes) :
        /\ reply_fetches' = reply_fetches + 1
        /\ nextid' = nextid + TokensUsed(r.shapes)
        /\ late_failure' = (late_failure \/ (r.kind # "ok" /\ all_replies # <<>>))
        /\ last_request' =
               PageRequest(cidx, all_replies # <<>>, r,
                           Len(all_replies) + Len(r.shapes))
        /\ slept' = (r.kind = "ok" /\ r.shapes # <<>> /\ r.more)
        /\ CASE r.kind = "exception" -> FBReturnReplies(<<>>)
             [] r.kind = "http_error" -> FBReturnReplies(all_replies)
             [] r.kind = "ok" /\ r.shapes = <<>> ->
                  FBReturnReplies(all_replies)
             [] r.kind = "ok" /\ r.shapes # <<>> ->
                  IF r.more
                  THEN /\ all_replies' =
                            all_replies \o MkReplies(r.shapes, nextid)
                       /\ UNCHANGED <<result, cidx, in_reply>>
                  ELSE FBReturnReplies(
                            all_replies \o MkReplies(r.shapes, nextid))
    /\ UNCHANGED nonretrieval
    /\ UNCHANGED <<platform, limit, rpc, all_comments, next_page,
                   data_defined, total_comments, total_replies, rows, raised,
                   top_fetches>>

\* `return comments_with_replies` / end of the instagram reply pass
RepliesDone ==
    /\ rpc = "replies" /\ ~in_reply
    /\ cidx > Len(all_comments)
    /\ rpc' = "normalize"
    /\ UNCHANGED nonretrieval
    /\ UNCHANGED <<late_failure, slept, last_request>>
    /\ UNCHANGED <<platform, limit, all_comments, next_page, data_defined,
                   total_comments, total_replies, cidx, in_reply, all_replies,
                   result, rows, raised, top_fetches, reply_fetches, nextid>>

\* one iteration of the top-level loop of get_instagram_comments; an
\* exception of requests.get is not caught there
IGTopFetch ==
    /\ platform = "instagram" /\ rpc = "top" /\ IGTopCond
    /\ \E r \in Responses(IGShapes) :
        /\ top_fetches' = top_fetches + 1
        /\ nextid' = nextid + TokensUsed(r.shapes)
        /\ late_failure' = (late_failure \/ (r.kind # "ok" /\ top_fetches > 0))
        /\ last_request' =
               PageRequest(0, top_fetches > 0, r,
                           Len(all_comments) + Len(r.shapes))
        /\ slept' = (r.kind = "ok" /\ r.shapes # <<>> /\ r.more)
        /\ CASE r.kind = "exception" ->
                  /\ raised' = TRUE
                  /\ rpc' = "done"
                  /\ UNCHANGED <<all_comments, next_page, total_comments>>
             [] r.kind = "http_error" ->
                  /\ rpc' = "replies"
                  /\ UNCHANGED <<all_comments, next_page, total_comments,
                                 raised>>
             [] r.kind = "ok" /\ r.shapes = <<>> ->
                  /\ rpc' = "replies"
                  /\ UNCHANGED <<all_comments, next_page, total_comments,
                                 raised>>
             [] r.kind = "ok" /\ r.shapes # <<>> ->
                  /\ total_comments' = total_comments + Len(r.shapes)
                  /\ all_comments' = all_comments \o MkPage(r.shapes, nextid)
                  /\ next_page' = r.more
                  /\ UNCHANGED <<rpc, raised>>
    /\ UNCHANGED nonretrieval
    /\ UNCHANGED <<platform, limit, data_defined, total_replies, cidx,
                   in_reply, all_replies, result, rows, reply_fetches>>

IGTopExit ==
    /\ platform = "instagram" /\ rpc = "top" /\ ~IGTopCond
    /\ rpc' = "replies"
    /\ UNCHANGED nonretrieval
    /\ UNCHANGED <<late_failure, slept, last_request>>
    /\ UNCHANGED <<platform, limit, all_comments, next_page, data_defined,
                   total_comments, total_replies, cidx, in_reply, all_replies,
                   result, rows, raised, top_fetches, reply_fetches, nextid>>

\* instagram reply pass: the next comment of
\* `for comment_index, comment in enumerate(all_comments)`
IGRepliesNext ==
    /\ platform = "instagram" /\ rpc = "replies" /\ ~in_reply
    /\ cidx <= Len(all_comments)
    /\ LET c == all_comments[cidx] IN
       IF c.has_replies /\ c.more
       THEN \* all_replies = list(initial_replies); the reply loop is entered
            /\ in_reply' = TRUE
            /\ all_replies' = c.replies
            /\ UNCHANGED <<cidx, result, total_replies>>
       ELSE /\ total_replies' =
                  IF c.has_replies THEN total_replies + Len(c.replies)
                  ELSE total_replies
            /\ result' = Append(result, c)
            /\ cidx' = cidx + 1
            /\ UNCHANGED <<in_reply, all_replies>>
    /\ UNCHANGED nonretrieval
    /\ UNCHANGED <<late_failure, slept, last_request>>
    /\ UNCHANGED <<platform, limit, rpc, all_comments, next_page,
                   data_defined, total_comments, rows, raised, top_fetches,
                   reply_fetches, nextid>>

\* the replies of the fetched pages stored before the embedded ones
IGStoreFetchedFirst(replies) ==
    LET k == Len(all_comments[cidx].replies) IN
    /\ result' = Append(result,
                        Attach(all_comments[cidx],
                               SubSeq(replies, k + 1, Len(replies))
                               \o SubSeq(replies, 1, k)))
    /\ cidx' = cidx + 1
    /\ in_reply' = FALSE
    /\ all_replies' = <<>>

\* comment['replies'] = {'data': all_replies};
\* comments_with_complete_replies.append(comment)
IGStoreReplies(replies) ==
    /\ result' = Append(result, Attach(all_comments[cidx], replies))
    /\ cidx' = cidx + 1
    /\ in_reply' = FALSE
    /\ all_replies' = <<>>

\* one iteration of the reply loop of get_instagram_comments.  The loop is
\* left when a page carries no next cursor.
IGReplyFetch ==
    /\ platform = "instagram" /\ rpc = "replies" /\ in_reply /\ IGReplyCond
    /\ \E r \in Responses(ReplyShapes) :
        /\ reply_fetches' = reply_fetches + 1
        /\ nextid' = nextid + TokensUsed(r.shapes)
        /\ late_failure' = (late_failure \/ r.kind # "ok")
        /\ last_request' =
               PageRequest(cidx, TRUE, r, Len(all_replies) + Len(r.shapes))
        /\ slept' = (r.kind = "ok" /\ r.shapes # <<>> /\ r.more)
        /\ CASE r.kind = "exception" ->
                  /\ raised' = TRUE
                  /\ rpc' = "done"
                  /\ UNCHANGED <<result, cidx, in_reply, all_replies,
                                 total_replies>>
             [] r.kind = "http_error" ->
                  /\ IGStoreReplies(all_replies)
                  /\ UNCHANGED <<rpc, raised, total_replies>>
             [] r.kind = "ok" /\ r.shapes = <<>> ->
                  /\ IGStoreReplies(all_replies)
                  /\ UNCHANGED <<rpc, raised, total_replies>>
             [] r.kind = "ok" /\ r.shapes # <<>> ->
                  /\ total_replies' = total_replies + Len(r.shapes)
                  /\ UNCHANGED <<rpc, raised>>
                  /\ IF r.more
                     THEN /\ all_replies' =
                               all_replies \o MkReplies(r.shapes, nextid)
                          /\ UNCHANGED <<result, cidx, in_reply>>
                     ELSE IGStoreReplies(
                               all_replies \o MkReplies(r.shapes, nextid))
    /\ UNCHANGED nonretrieval
    /\ UNCHANGED <<platform, limit, all_comments, next_page, data_defined,
                   total_comments, rows, top_fetches>>

\* the reply loop's condition is false at the loop head: the cap is reached
IGReplyExit ==
    /\ platform = "instagram" /\ rpc = "replies" /\ in_reply /\ ~IGReplyCond
    /\ IGStoreReplies(all_replies)
    /\ UNCHANGED nonretrieval
    /\ UNCHANGED <<late_failure, slept, last_request>>
    /\ UNCHANGED <<platform, limit, rpc, all_comments, next_page,
                   data_defined, total_comments, total_replies, rows, raised,
                   top_fetches, reply_fetches, nextid>>

\* the readings of the wall clock, in seconds
Clock == 0..1

\* the values datetime.now() takes over n successive calls
Timestamps(n) ==
    {ts \in [1..n -> Clock] : \A a, b \in 1..n : a <= b => ts[a] <= ts[b]}

\* 'timestamp': datetime.now().strftime('%Y-%m-%d %H:%M:%S') of each row
Stamp(rs, ts) ==
    [p \in 1..Len(rs) |->
        [id |-> rs[p].id, sub_id |-> rs[p].sub_id, comment |-> rs[p].comment,
         message |-> rs[p].message, author |-> rs[p].author,
         client |-> rs[p].client, url |-> rs[p].url,
         platform |-> rs[p].platform, timestamp |-> ts[p]]]

\* the rows the platform's normalizer builds for `comments`, before the
\* capture time is put on them
Formatted(comments, plat) ==
    IF plat = "facebook"
    THEN format_comments_for_output(comments, "name", "url")
    ELSE output_comments(comments)

\* a normalization that takes the replies out of the comments it formats
NormalizeTakingReplies ==
    /\ rpc = "normalize"
    /\ \E ts \in Timestamps(Len(Formatted(result, platform))) :
          rows' = Stamp(Formatted(result, platform), ts)
    /\ result' = [i \in 1..Len(result) |-> Attach(result[i], <<>>)]
    /\ rpc' = "done"
    /\ UNCHANGED nonretrieval
    /\ UNCHANGED <<late_failure, slept, last_request>>
    /\ UNCHANGED <<platform, limit, all_comments, next_page, data_defined,
                   total_comments, total_replies, cidx, in_reply, all_replies,
                   raised, top_fetches, reply_fetches, nextid>>

\* facebook: process_link formats the returned comments;
\* instagram: the output loop of get_instagram_comments.  Every row is
\* stamped with the time it was built; the comments are only read
Normalize ==
    /\ rpc = "normalize"
    /\ \E ts \in Timestamps(Len(Formatted(result, platform))) :
          rows' = Stamp(Formatted(result, platform), ts)
    /\ rpc' = "done"
    /\ UNCHANGED nonretrieval
    /\ UNCHANGED <<late_failure, slept, last_request>>
    /\ UNCHANGED <<platform, limit, all_comments, next_page, data_defined,
                   total_comments, total_replies, cidx, in_reply, all_replies,
                   result, raised, top_fetches, reply_fetches, nextid>>

NextRetrieve ==
    \/ FBTopFetch
    \/ FBTopExit
    \/ FBRepliesNext
    \/ FBReplyFetch
    \/ IGTopFetch
    \/ IGTopExit
    \/ IGRepliesNext
    \/ IGReplyFetch
    \/ IGReplyExit
    \/ RepliesDone
    \/ Normalize

SpecRetrieve == InitRetrieve /\ [][NextRetrieve]_vars


(***************************************************************************)
(* Run Orchestrator: process_links and the two process_link methods.       *)
(* A link is [platform, path]; the path is the part of the URL after the   *)
(* host.  Every link starts with the scheme, so one link occurs inside     *)
(* another exactly when the hosts agree and its path is a prefix.          *)
(***************************************************************************)
LinkFB1 == [platform |-> "facebook", path |-> <<1>>]
LinkFB12 == [platform |-> "facebook", path |-> <<1, 2>>]
LinkIG1 == [platform |-> "instagram", path |-> <<1>>]

PairPool ==
    { [client |-> "A", link |-> LinkFB1], [client |-> "B", link |-> LinkFB12],
      [client |-> "A", link |-> LinkIG1], [client |-> "B", link |-> LinkIG1] }

\* rows of df that come before the pairs and whose link names neither
\* platform (a link to another site): both filters of process_links drop
\* them, and they move the index labels of the rows that follow
MaxSkipped == 1

\* the rows of df whose link names a platform, each with its label in
\* df.index (0, 1, 2, ... over the whole of df)
Batches ==
    { [i \in 1..Len(b) |->
         [client |-> b[i].client, link |-> b[i].link,
          index |-> off + i - 1]] :
      b \in UNION {[1..k -> PairPool] : k \in 0..MaxPairs},
      off \in 0..MaxSkipped }

\* graph_api_mapping.get(client), split at the commas by process_link;
\* a client without a mapping is used as its own only name
MappedNames(client) ==
    IF client = "A" THEN <<"a1", "a2">> ELSE <<client>>

\* df[df['link'].str.contains(<platform>)]
PlatformRows(plat) == SelectSeq(batch, LAMBDA pr : pr.link.platform = plat)

\* `link in comment['url']`
LinkIn(link, url) ==
    /\ link.platform = url.platform
    /\ Len(link.path) <= Len(url.path)
    /\ SubSeq(url.path, 1, Len(link.path)) = link.path

\* keys of link_to_client = dict(zip(df['link'], df['client']))
RECURSIVE LinkKeys(_)
LinkKeys(prs) ==
    IF prs = <<>> THEN <<>>
    ELSE LET init == LinkKeys(SubSeq(prs, 1, Len(prs) - 1))
             l == prs[Len(prs)].link
         IN  IF \E i \in 1..Len(init) : init[i] = l THEN init
             ELSE Append(init, l)

\* link_to_client.get(link, ''): the client of the last pair with that link
ClientOf(link) ==
    IF \E i \in 1..Len(batch) : batch[i].link = link
    THEN batch[CHOOSE i \in 1..Len(batch) :
                  /\ batch[i].link = link
                  /\ \A k \in (i + 1)..Len(batch) : batch[k].link # link].client
    ELSE ""

\* the original client of a collected row: the first key that occurs in
\* the row's url, else the row's own client
OriginalClient(row) ==
    LET keys == LinkKeys(batch) IN
    IF \E i \in 1..Len(keys) : LinkIn(keys[i], row.url)
    THEN ClientOf(keys[CHOOSE i \in 1..Len(keys) :
                          /\ LinkIn(keys[i], row.url)
                          /\ \A k \in 1..(i - 1) : ~LinkIn(keys[k], row.url)])
    ELSE row.client

SetClient(rs, client) == [p \in 1..Len(rs) |-> [rs[p] EXCEPT !.client = client]]

\* what the stages of the pipeline yield for one name of one call;
\* "rate_limited": the first comments request is answered with status 429
StageOutcomes ==
    {"no_account", "no_post", "no_comments", "rate_limited", "comments",
     "comments_with_reply", "exception"}

Yields(outcome) == outcome \in {"comments", "comments_with_reply"}

\* the outcomes drawn for a name on the retry pass: a name that ends
\* without a row and without an exception does so as "no_account" (the
\* retry loop treats every such end alike)
RetryOutcomes == StageOutcomes \ {"no_post", "no_comments", "rate_limited"}

\* the comments a successful retrieval returns
RetrievedComments(outcome, tok) ==
    IF outcome = "comments_with_reply"
    THEN <<Attach(MkComment("cc1", tok), <<[text |-> tok + 1]>>)>>
    ELSE <<Attach(MkComment("cc0", tok), <<>>)>>

\* FacebookCommentsFetcher.process_link from the name loop on.  The result
\* is [rows, failed, error, located, paused]: the rows returned, whether
\* the link was appended to self.failed_links, whether an exception was
\* raised and caught, whether every Locator call made found the post, and
\* whether time.sleep(60) was called.  A response with status 429 raises
\* nothing: get_facebook_comments leaves its loop and returns no comment.
\* Every requests call sits in a try block of its own method, so the
\* handler reached in process_link is `except Exception`, which records
\* the link and does not sleep.
RECURSIVE FBNames(_, _, _, _, _, _)
FBNames(link, names, env, k, tok, located) ==
    IF k > Len(names)
    THEN [rows |-> <<>>, failed |-> TRUE, error |-> FALSE, escaped |-> FALSE,
          located |-> located, paused |-> FALSE]
    ELSE IF names[k] = ""
    THEN FBNames(link, names, env, k + 1, tok, located)
    ELSE IF env[k] = "exception"
    THEN [rows |-> <<>>, failed |-> TRUE, error |-> TRUE, escaped |-> FALSE,
          located |-> located, paused |-> FALSE]
    ELSE IF Yields(env[k])
    THEN [rows |-> format_comments_for_output(
                       RetrievedComments(env[k], tok), names[k], link),
          failed |-> FALSE, error |-> FALSE, escaped |-> FALSE,
          located |-> located, paused |-> FALSE]
    ELSE FBNames(link, names, env, k + 1, tok,
                 located /\ env[k] # "no_post")

FBProcessLink(link, names, env, tok) ==
    FBNames(link, names, env, 1, tok, TRUE)

\* the `for name in mapped_names ... else` loop of
\* InstagramFetcher.process_link: the position of the first name for which
\* the business id is found (or the lookup raises), 0 when the loop ends
RECURSIVE IGFirstResolved(_, _, _)
IGFirstResolved(names, env, k) ==
    IF k > Len(names) THEN 0
    ELSE IF names[k] # "" /\ env[k] # "no_account" THEN k
    ELSE IGFirstResolved(names, env, k + 1)

\* the rows tagged with the last name of the list
IGProcessLinkTagsLast(link, names, env, tok) ==
    LET k == IGFirstResolved(names, env, 1)
        none == [rows |-> <<>>, failed |-> FALSE, error |-> FALSE,
                 escaped |-> FALSE, located |-> TRUE, paused |-> FALSE]
    IN  IF k = 0 THEN none
        ELSE IF env[k] = "exception"
        THEN [none EXCEPT !.error = TRUE, !.escaped = TRUE]
        ELSE IF env[k] = "no_post" THEN [none EXCEPT !.located = FALSE]
        ELSE IF env[k] \in {"no_comments", "rate_limited"} THEN none
        ELSE [none EXCEPT !.rows =
                [p \in 1..Len(output_comments(RetrievedComments(env[k], tok)))
                   |-> [output_comments(RetrievedComments(env[k], tok))[p]
                           EXCEPT !.client = names[Len(names)],
                                  !.url = link]]]

\* InstagramFetcher.process_link: nothing is appended to self.failed_links;
\* an exception of a stage is not caught and leaves the method; a status
\* 429 ends the loop of get_instagram_comments, which returns no comment
IGProcessLink(link, names, env, tok) ==
    LET k == IGFirstResolved(names, env, 1)
        none == [rows |-> <<>>, failed |-> FALSE, error |-> FALSE,
                 escaped |-> FALSE, located |-> TRUE, paused |-> FALSE]
    IN  IF k = 0 THEN none
        ELSE IF env[k] = "exception"
        THEN [none EXCEPT !.error = TRUE, !.escaped = TRUE]
        ELSE IF env[k] = "no_post" THEN [none EXCEPT !.located = FALSE]
        ELSE IF env[k] \in {"no_comments", "rate_limited"} THEN none
        ELSE [none EXCEPT !.rows =
                [p \in 1..Len(output_comments(RetrievedComments(env[k], tok)))
                   |-> [output_comments(RetrievedComments(env[k], tok))[p]
                           EXCEPT !.client = names[k], !.url = link]]]

ProcessLink(link, names, env, tok) ==
    IF link.platform = "instagram"
    THEN IGProcessLink(link, names, env, tok)
    ELSE FBProcessLink(link, names, env, tok)

\* a handler that only prints
HandlerSkipsRecord(failed, link, r) == failed

\* a handler that records every link
HandlerRecordsAll(failed, link, r) == Append(failed, link)

\* `except Exception` around one pair of a first-pass loop:
\* fetcher.failed_links.append(row['link'])
HandlerRecords(failed, link, r) ==
    IF r.escaped THEN Append(failed, link) ELSE failed

\* a request of the call for `link` was answered with status 429: on
\* Facebook a request made for one of the names the loop came to, on
\* Instagram the request made for the first name that resolved
RateLimited(link, names, env) ==
    IF link.platform = "instagram"
    THEN LET k == IGFirstResolved(names, env, 1) IN
         k # 0 /\ env[k] = "rate_limited"
    ELSE \E k \in 1..Len(names) :
            /\ names[k] # "" /\ env[k] = "rate_limited"
            /\ \A j \in 1..(k - 1) :
                  names[j] = "" \/ ~(Yields(env[j]) \/ env[j] = "exception")

\* the name for which the call retrieved comments: the account it
\* resolved was the one used; "" when the call retrieved for no name
UsedName(link, names, env) ==
    LET used == { k \in 1..Len(names) :
                    /\ names[k] # ""
                    /\ IF link.platform = "instagram"
                       THEN env[k] # "no_account"
                       ELSE Yields(env[k]) \/ env[k] = "exception" }
    IN  IF used = {} THEN ""
        ELSE names[CHOOSE k \in used : \A j \in used : k <= j]

\* In the record kept of one call `recorded` says that the call added the
\* link to a fetcher's failed_links, `limited` that it met status 429, and
\* `used` is the name it retrieved for.
\* `if index < len(<platform>_df) - 1: time.sleep(3)` after the call of
\* process_link in a first-pass loop; a call that raised has gone to the
\* handler before it
InterLinkDelay(pr, r) ==
    ~r.escaped /\ pr.index < Len(PlatformRows(pr.link.platform)) - 1

\* the record kept of one call; `delayed` says that time.sleep(3) was
\* called after it
CallRecord(pass, link, r, recorded, limited, used, delayed) ==
    [pass |-> pass, link |-> link, rows |-> r.rows, error |-> r.error,
     located |-> r.located, recorded |-> recorded, paused |-> r.paused,
     limited |-> limited, used |-> used, delayed |-> delayed]

InitOrchestrator ==
    /\ batch \in Batches
    /\ opc \in {"main", "process_links"}
    /\ oidx = 1
    /\ ig_all = <<>>
    /\ ig_failed = <<>>
    /\ fb_all = <<>>
    /\ fb_failed = <<>>
    /\ comments_df = <<>>
    /\ columns = <<>>
    /\ week = <<>>
    /\ combined_file = <<>>
    /\ failed_links = <<>>
    /\ ret = "running"
    /\ cleanup = "none"
    /\ fb_files = {}
    /\ otok = 1
    /\ calls = <<>>
    /\ IdleRetrieve
    /\ IdleResolve
    /\ IdleLink

\* main up to its call of process_links: an empty df is answered with
\* (None, None) at once
main ==
    /\ opc = "main"
    /\ IF batch = <<>>
       THEN ret' = "none" /\ opc' = "done"
       ELSE ret' = ret /\ opc' = "process_links"
    /\ UNCHANGED <<cleanup, batch, oidx, ig_all, ig_failed, fb_all, fb_failed,
                   comments_df, columns, week, combined_file, failed_links,
                   otok, calls>>
    /\ UNCHANGED fb_files
    /\ UNCHANGED nonorchestrator

\* process_links up to its first loop: the fetchers are built and the
\* batch is split by platform
process_links ==
    /\ opc = "process_links"
    /\ opc' = (IF PlatformRows("instagram") # <<>> THEN "instagram"
               ELSE IF PlatformRows("facebook") # <<>> THEN "facebook"
               ELSE "merge")
    /\ UNCHANGED <<cleanup, batch, oidx, ig_all, ig_failed, fb_all, fb_failed,
                   comments_df, columns, week, combined_file, failed_links,
                   ret, otok, calls>>
    /\ UNCHANGED fb_files
    /\ UNCHANGED nonorchestrator

\* what one call of FacebookCommentsFetcher.save_comments writes: the
\* file at self.output_path, the backup JSON when to_csv raised, nothing
\* when the backup could not be written either
SaveOutcomes == {"csv", "backup", "none"}

\* self.save_comments() of FacebookCommentsFetcher.process_link, reached
\* only by a call that returns rows; InstagramFetcher.process_link saves
\* nothing
save_comments(files, link, r, saved) ==
    IF link.platform = "facebook" /\ r.rows # <<>> /\ saved # "none"
    THEN files \cup {saved}
    ELSE files

\* the files cleanup_temp_files leaves: none when nothing raised; when
\* os.remove raised, all of them, or the backup alone when the file at
\* fb_output_path had been removed before
Leftover(files, removed) ==
    IF removed THEN {{}}
    ELSE IF "backup" \in files THEN {files, files \ {"csv"}}
    ELSE {files}

\* one iteration of `for index, row in instagram_df.iterrows()`
FirstPassIG ==
    /\ opc = "instagram"
    /\ LET pr == PlatformRows("instagram")[oidx]
           names == MappedNames(pr.client)
       IN  \E env \in [1..Len(names) -> StageOutcomes] :
           LET r == IGProcessLink(pr.link, names, env, otok) IN
           /\ ig_all' = ig_all \o r.rows
           /\ ig_failed' = HandlerRecords(ig_failed, pr.link, r)
           /\ otok' = otok + Len(r.rows)
           /\ calls' = Append(calls, CallRecord(1, pr.link, r,
                                 Len(ig_failed') > Len(ig_failed),
                                 RateLimited(pr.link, names, env),
                                 UsedName(pr.link, names, env),
                                 InterLinkDelay(pr, r)))
    /\ IF oidx < Len(PlatformRows("instagram"))
       THEN oidx' = oidx + 1 /\ opc' = "instagram"
       ELSE /\ oidx' = 1
            /\ opc' = (IF PlatformRows("facebook") # <<>> THEN "facebook"
                       ELSE "merge")
    /\ UNCHANGED <<cleanup, batch, fb_all, fb_failed, comments_df, columns, week,
                   combined_file, failed_links, ret>>
    /\ UNCHANGED fb_files
    /\ UNCHANGED nonorchestrator

\* one iteration of `for index, row in facebook_df.iterrows()`
FirstPassFB ==
    /\ opc = "facebook"
    /\ PlatformRows("facebook") # <<>>
    /\ LET pr == PlatformRows("facebook")[oidx]
           names == MappedNames(pr.client)
       IN  \E env \in [1..Len(names) -> StageOutcomes] :
           LET r == FBProcessLink(pr.link, names, env, otok) IN
           /\ fb_all' = fb_all \o r.rows
           /\ \E saved \in (IF r.rows # <<>> THEN SaveOutcomes
                            ELSE {"none"}) :
                 fb_files' = save_comments(fb_files, pr.link, r, saved)
           /\ fb_failed' = HandlerRecords(
                  IF r.failed THEN Append(fb_failed, pr.link) ELSE fb_failed,
                  pr.link, r)
           /\ otok' = otok + Len(r.rows)
           /\ calls' = Append(calls, CallRecord(1, pr.link, r,
                                 Len(fb_failed') > Len(fb_failed),
                                 RateLimited(pr.link, names, env),
                                 UsedName(pr.link, names, env),
                                 InterLinkDelay(pr, r)))
    /\ IF oidx < Len(PlatformRows("facebook"))
       THEN oidx' = oidx + 1 /\ opc' = "facebook"
       ELSE oidx' = 1 /\ opc' = "merge"
    /\ UNCHANGED <<cleanup, batch, ig_all, ig_failed, comments_df, columns, week,
                   combined_file, failed_links, ret>>
    /\ UNCHANGED nonorchestrator

\* the keys of a formatted row, in the order the dict literal gives them
FBRowKeys ==
    <<"id", "sub_id", "date", "week", "likes", "live_video_timestamp",
      "comment", "image_urls", "view_source", "timestamp", "client", "url",
      "author", "platform">>

IGRowKeys ==
    <<"id", "sub_id", "date", "likes", "live_video_timestamp", "comment",
      "image_urls", "view_source", "timestamp", "client", "url", "platform",
      "week", "author">>

RowKeys(plat) == IF plat = "facebook" THEN FBRowKeys ELSE IGRowKeys

\* the labels `cols` followed by the keys not yet among them: the column
\* order of pd.concat, and of pd.DataFrame over a list of dicts
AddKeys(cols, keys) ==
    cols \o SelectSeq(keys, LAMBDA k : \A i \in 1..Len(cols) : cols[i] # k)

\* the columns of pd.DataFrame(rows): keys in order of first appearance
RECURSIVE FrameColumns(_)
FrameColumns(rs) ==
    IF rs = <<>> THEN <<>>
    ELSE AddKeys(FrameColumns(SubSeq(rs, 1, Len(rs) - 1)),
                 RowKeys(rs[Len(rs)].platform))

ordered_columns ==
    <<"id", "sub_id", "date", "week", "likes", "live_video_timestamp",
      "comment", "image_urls", "view_source", "timestamp", "client", "url",
      "platform">>

\* comments_df[[col for col in ordered_columns if col in comments_df.columns]]
Reorder(cols) ==
    SelectSeq(ordered_columns, LAMBDA c : \E i \in 1..Len(cols) : cols[i] = c)

\* the creation dates (UTC) the server reports, by payload token
CommentDates ==
    << [y |-> 2024, m |-> 3, d |-> 14], [y |-> 2024, m |-> 3, d |-> 11],
       [y |-> 2024, m |-> 3, d |-> 2], [y |-> 2024, m |-> 3, d |-> 17],
       [y |-> 2024, m |-> 1, d |-> 3], [y |-> 2023, m |-> 12, d |-> 31],
       [y |-> 2024, m |-> 2, d |-> 29] >>

\* comments_df['date'] of a row
DateOf(row) == CommentDates[((row.comment - 1) % Len(CommentDates)) + 1]

\* the proleptic Gregorian calendar of pandas Timestamps
IsLeap(y) == (y % 4 = 0 /\ y % 100 # 0) \/ y % 400 = 0

DaysInMonth(y, m) ==
    IF m = 2 THEN (IF IsLeap(y) THEN 28 + 1 ELSE 28)
    ELSE IF m \in {4, 6, 9, 11} THEN 30 ELSE 31

DaysBeforeYear(y) ==
    (y - 1) * 365 + (y - 1) \div 4 - (y - 1) \div 100 + (y - 1) \div 400

RECURSIVE DaysBeforeMonth(_, _)
DaysBeforeMonth(y, m) ==
    IF m = 1 THEN 0 ELSE DaysBeforeMonth(y, m - 1) + DaysInMonth(y, m - 1)

\* the day number of a date; day 1 is 0001-01-01, a Monday
ToOrdinal(date) ==
    DaysBeforeYear(date.y) + DaysBeforeMonth(date.y, date.m) + date.d

Years == 2023..2024

FromOrdinal(n) ==
    LET y == CHOOSE yy \in Years :
                 DaysBeforeYear(yy) < n /\ n <= DaysBeforeYear(yy + 1)
        r == n - DaysBeforeYear(y)
        m == CHOOSE mm \in 1..12 :
                 /\ DaysBeforeMonth(y, mm) < r
                 /\ r <= DaysBeforeMonth(y, mm) + DaysInMonth(y, mm)
    IN  [y |-> y, m |-> m, d |-> r - DaysBeforeMonth(y, m)]

\* Series.dt.weekday: Monday is 0, Sunday is 6
Weekday(date) == (ToOrdinal(date) + 6) % 7

\* two digits, as %m and %d print them
TwoDigits(n) == IF n < 10 THEN "0" \o IntToStr(n) ELSE IntToStr(n)

\* strftime('%Y-%m-%d') for a four-digit year
Strftime(date) ==
    IntToStr(date.y) \o "-" \o TwoDigits(date.m) \o "-" \o TwoDigits(date.d)

\* the week counted from Sunday
WeekOfFromSunday(date) ==
    Strftime(FromOrdinal(ToOrdinal(date) - (ToOrdinal(date) % 7)))

\* (date - pd.to_timedelta(date.dt.weekday, unit='D')).dt.strftime('%Y-%m-%d')
WeekOf(date) == Strftime(FromOrdinal(ToOrdinal(date) - Weekday(date)))

\* comments_df['week'] computed for every row of the table
WeekColumn(table) == [p \in 1..Len(table) |-> WeekOf(DateOf(table[p]))]

\* prepared_comments: every collected row gets the original client name;
\* the rows are the fetchers' own objects, which change with them
Prepared(rs) == [p \in 1..Len(rs) |-> [rs[p] EXCEPT !.client = OriginalClient(rs[p])]]

\* the merge without the early return for an empty prepared_comments
MergeWithoutEarlyReturn ==
    /\ opc = "merge"
    /\ ig_all' = Prepared(ig_all)
    /\ fb_all' = Prepared(fb_all)
    /\ comments_df' = Prepared(ig_all \o fb_all)
    /\ week' = WeekColumn(comments_df')
    /\ columns' = Reorder(FrameColumns(comments_df'))
    /\ combined_file' = comments_df'
    /\ opc' = "cleanup"
    /\ oidx' = 1
    /\ UNCHANGED <<cleanup, batch, ig_failed, fb_failed, otok, calls, ret,
                   failed_links>>
    /\ UNCHANGED fb_files
    /\ UNCHANGED nonorchestrator

\* from "Saving all comments data" to the start of the retry loop:
\* nothing collected returns (None, None); else the table is built, the
\* combined file is written and the failed links of both fetchers are listed
Merge ==
    /\ opc = "merge"
    /\ ig_all' = Prepared(ig_all)
    /\ fb_all' = Prepared(fb_all)
    /\ IF ig_all \o fb_all = <<>>
       THEN /\ ret' = "none"
            /\ opc' = "done"
            /\ UNCHANGED <<comments_df, columns, week, combined_file,
                           failed_links>>
       ELSE /\ comments_df' = Prepared(ig_all \o fb_all)
            /\ week' = WeekColumn(comments_df')
            /\ columns' = Reorder(FrameColumns(comments_df'))
            /\ combined_file' = comments_df'
            /\ opc' = "cleanup"
            /\ UNCHANGED <<ret, failed_links>>
    /\ oidx' = 1
    /\ UNCHANGED <<cleanup, batch, ig_failed, fb_failed, otok, calls>>
    /\ UNCHANGED fb_files
    /\ UNCHANGED nonorchestrator

\* a cleanup whose failure leaves process_links through its outer handler
CleanupEscalates ==
    /\ opc = "cleanup"
    /\ \E removed \in BOOLEAN :
          IF removed
          THEN /\ cleanup' = "ok"
               /\ fb_files' = {}
               /\ failed_links' = ig_failed \o fb_failed
               /\ opc' = "retry"
               /\ ret' = ret
          ELSE /\ cleanup' = "failed"
               /\ fb_files' \in Leftover(fb_files, FALSE)
               /\ failed_links' = failed_links
               /\ opc' = "done"
               /\ ret' = "none"
    /\ UNCHANGED <<batch, oidx, ig_all, ig_failed, fb_all, fb_failed,
                   comments_df, columns, week, combined_file, otok, calls>>
    /\ UNCHANGED nonorchestrator

\* cleanup_temp_files(ig_output_path, fb_output_path), then the list of
\* failed links is put together for the retry loop; os.remove may raise,
\* which the handler of cleanup_temp_files prints
Cleanup ==
    /\ opc = "cleanup"
    /\ \E removed \in BOOLEAN :
          /\ cleanup' = (IF removed THEN "ok" ELSE "failed")
          /\ fb_files' \in Leftover(fb_files, removed)
    /\ failed_links' = ig_failed \o fb_failed
    /\ opc' = "retry"
    /\ UNCHANGED <<batch, oidx, ig_all, ig_failed, fb_all, fb_failed,
                   comments_df, columns, week, combined_file, ret, otok,
                   calls>>
    /\ UNCHANGED nonorchestrator

\* comments_df = pd.DataFrame(comments) in place of the concatenation
ConcatOverwrites(df, comments) == comments

\* comments_df = pd.concat([comments_df, pd.DataFrame(comments)])
Concat(df, comments) == df \o comments

\* one iteration of `for link in failed_links`
Retry ==
    /\ opc = "retry"
    /\ oidx <= Len(failed_links)
    /\ LET link == failed_links[oidx]
           client_name == ClientOf(link)
           names == MappedNames(client_name)
       IN  \E env \in [1..Len(names) -> RetryOutcomes] :
           LET r == ProcessLink(link, names, env, otok)
               retried == SetClient(r.rows, client_name)
           IN
           /\ IF link.platform = "instagram"
              THEN /\ ig_all' = ig_all \o retried
                   /\ UNCHANGED <<fb_all, fb_failed>>
              ELSE /\ fb_all' = fb_all \o retried
                   /\ fb_failed' = IF r.failed THEN Append(fb_failed, link)
                                   ELSE fb_failed
                   /\ UNCHANGED ig_all
           /\ \E saved \in (IF link.platform = "facebook" /\ r.rows # <<>>
                            THEN SaveOutcomes ELSE {"none"}) :
                 fb_files' = save_comments(fb_files, link, r, saved)
           /\ comments_df' = IF r.rows # <<>> THEN Concat(comments_df, retried)
                             ELSE comments_df
           /\ columns' = IF r.rows # <<>>
                         THEN AddKeys(columns, FrameColumns(retried))
                         ELSE columns
           /\ week' = IF r.rows # <<>>
                      THEN week \o [p \in 1..Len(retried) |-> ""]
                      ELSE week
           /\ otok' = otok + Len(r.rows)
           /\ calls' = Append(calls, CallRecord(2, link, r,
                                 Len(fb_failed') > Len(fb_failed),
                                 RateLimited(link, names, env),
                                 UsedName(link, names, env), FALSE))
    /\ oidx' = oidx + 1
    /\ UNCHANGED <<cleanup, batch, opc, ig_failed, combined_file, failed_links, ret>>
    /\ UNCHANGED nonorchestrator

\* the return of the path and table without the final save
FinishWithoutSave ==
    /\ opc = "retry"
    /\ oidx > Len(failed_links)
    /\ ret' = "table"
    /\ opc' = "done"
    /\ week' = WeekColumn(comments_df)
    /\ UNCHANGED <<cleanup, batch, oidx, ig_all, ig_failed, fb_all, fb_failed,
                   comments_df, columns, combined_file, failed_links, otok,
                   calls>>
    /\ UNCHANGED fb_files
    /\ UNCHANGED nonorchestrator

\* "Final save with retried links" and the return of the path and table
Finish ==
    /\ opc = "retry"
    /\ oidx > Len(failed_links)
    /\ combined_file' = IF comments_df # <<>> THEN comments_df
                        ELSE combined_file
    /\ ret' = "table"
    /\ opc' = "done"
    /\ week' = WeekColumn(comments_df)
    /\ UNCHANGED <<cleanup, batch, oidx, ig_all, ig_failed, fb_all, fb_failed,
                   comments_df, columns, failed_links, otok, calls>>
    /\ UNCHANGED fb_files
    /\ UNCHANGED nonorchestrator

Next ==
    \/ main
    \/ process_links
    \/ FirstPassIG
    \/ FirstPassFB
    \/ Merge
    \/ Cleanup
    \/ Retry
    \/ Finish

Spec == InitOrchestrator /\ [][Next]_vars

(***************************************************************************)
(* Properties of one post's retrieval and normalization (SpecRetrieve).    *)
(***************************************************************************)
Returned == rpc = "done" /\ ~raised

IsTopRow(r) == r.sub_id = ""

TopRows == SelectSeq(rows, IsTopRow)

\* the rows that carry sequence_id i, in output order
Group(i) == SelectSeq(rows, LAMBDA r : r.id = i)

RECURSIVE CountReplies(_, _)
CountReplies(comments, n) ==
    IF n = 0 THEN 0
    ELSE Len(RepliesOf(comments[n])) + CountReplies(comments, n - 1)

\* number of rows that precede the row of comment i
Offset(i) == (i - 1) + CountReplies(result, i - 1)

\* C1: for any cap N the rows produced for one post, top-level plus
\* replies, never exceed N; N = 0 gives no row; with N = 1 a post that has
\* comments gives exactly one top-level row and no reply page is fetched.
C1_CapNeverExceeded ==
    Returned =>
        /\ Len(rows) <= limit
        /\ (limit = 0 => rows = <<>>)
        /\ (limit = 1 /\ all_comments # <<>> =>
                /\ Len(rows) = 1
                /\ IsTopRow(rows[1])
                /\ reply_fetches = 0)

\* the payload tokens of the items the server has handed out on pages
\* answered with status 200
Delivered == 1..(nextid - 1)

\* C16: when a page fetch after the first of a pagination loop, top-level
\* or of a comment's replies, fails in transport on Facebook, the retrieval
\* raises nothing to its caller and returns every item accumulated from
\* the pages fetched before, of that loop and of the loops before it.
C16_PartialResultsKept ==
    (platform = "facebook" /\ rpc = "done" /\ late_failure) =>
        /\ ~raised
        /\ \A t \in Delivered : \E p \in 1..Len(rows) : rows[p].comment = t

\* C22: on both platforms, a comment or reply whose payload has no author
\* gives a row whose author is "Unknown", and one whose payload has no text
\* gives a row whose comment text is the empty string.
C22_MissingFields ==
    rpc = "done" =>
        \A p \in 1..Len(rows) :
            /\ ~HasAuthor(rows[p].comment) => rows[p].author = "Unknown"
            /\ ~HasText(rows[p].comment) => rows[p].message = ""

\* the latest request was made by the top-level loop
LastIsTop == last_request.kind # "none" /\ last_request.ctx = 0

\* the condition of the platform's top-level loop
TopCond == IF platform = "facebook" THEN FBTopCond ELSE IGTopCond

\* C24: the top-level loop requests a further page if and only if the page
\* before it was fetched with success, was not empty, carried a next cursor
\* and left the accumulator below the cap; so the loop stops at the first
\* page that fails, is empty, fills the cap or has no cursor; and the
\* items of every page fetched are in the accumulator.
C24_TopPagination ==
    /\ (LastIsTop /\ last_request.cursor) => last_request.after_good
    /\ (LastIsTop /\ rpc = "top" /\ GoodPage(last_request)) => TopCond
    /\ (LastIsTop /\ rpc # "top") => ~GoodPage(last_request)
    /\ LastIsTop =>
          /\ Len(all_comments) = last_request.acc
          /\ last_request.n <= Len(all_comments)

\* the top-level loop has stopped after its second page because that page
\* filled the cap although it carried a next cursor
C24_Witness ==
    /\ LastIsTop /\ rpc # "top"
    /\ top_fetches = 2
    /\ last_request.kind = "ok" /\ last_request.more
    /\ last_request.acc >= limit

\* C25: with a cap N, neither the top-level loop nor any reply loop
\* requests a page once the top-level and reply items held together have
\* reached N, so the retrieval of one post ends after a bounded number of
\* page requests whatever the server returns.
C25_CapBoundsFetches ==
    last_request.kind # "none" => last_request.held < limit

\* C28: in every pagination loop of both platforms a page request that
\* follows a cursor is preceded by a delay taken after the request before
\* it, and no two requests of one loop are made without a delay between
\* them.
C28_DelayBeforeCursor ==
    /\ (last_request.kind # "none" /\ last_request.cursor)
          => last_request.delayed
    /\ (last_request.kind # "none" /\ last_request.after_good)
          => last_request.delayed

\* the server hands out payload tokens in increasing order, so a sequence
\* of items is in the order received when its tokens increase
InOrderReceived(items) ==
    \A a, b \in 1..Len(items) : a < b => items[a].text < items[b].text

\* C29: the top-level comments are returned in the order their pages and
\* items were received, and each comment's replies in the order received:
\* on Instagram the replies embedded in the comment first, then those of
\* each further reply page in fetch order, none dropped or duplicated.
C29_OrderKept ==
    Returned =>
        /\ InOrderReceived(result)
        /\ Len(result) = Len(all_comments)
        /\ \A i \in 1..Len(result) :
              /\ result[i].text = all_comments[i].text
              /\ InOrderReceived(RepliesOf(result[i]))
              /\ platform = "instagram" =>
                    LET embedded == RepliesOf(all_comments[i]) IN
                    /\ Len(embedded) <= Len(RepliesOf(result[i]))
                    /\ SubSeq(RepliesOf(result[i]), 1, Len(embedded))
                          = embedded
        /\ platform = "instagram" =>
              \A t \in Delivered :
                 \E i \in 1..Len(result) :
                    \/ result[i].text = t
                    \/ \E j \in 1..Len(RepliesOf(result[i])) :
                          RepliesOf(result[i])[j].text = t

\* an Instagram comment was returned with its embedded reply followed by
\* the replies of two further pages
C29_Witness ==
    /\ Returned /\ platform = "instagram"
    /\ reply_fetches >= 2
    /\ \E i \in 1..Len(result) : Len(RepliesOf(result[i])) >= 3

\* rows with the capture time blanked
WithoutTimestamp(rs) == [p \in 1..Len(rs) |-> [rs[p] EXCEPT !.timestamp = 0]]

C7_SequenceIds ==
    Returned =>
        /\ Len(TopRows) = Len(all_comments)
        /\ \A k \in 1..Len(TopRows) :
              /\ TopRows[k].id = k
              /\ TopRows[k].comment = all_comments[k].text
        /\ \A p \in 1..Len(rows) :
              ~IsTopRow(rows[p]) =>
                  /\ rows[p].id \in 1..Len(result)
                  /\ \E j \in 1..Len(RepliesOf(result[rows[p].id])) :
                        RepliesOf(result[rows[p].id])[j].text = rows[p].comment
                  /\ \E q \in 1..(p - 1) :
                        /\ IsTopRow(rows[q])
                        /\ rows[q].id = rows[p].id
                        /\ \A m \in (q + 1)..p : ~IsTopRow(rows[m])

\* a post with two comments whose second comment has a reply was normalized
C7_Witness ==
    /\ Returned
    /\ Len(TopRows) >= 2
    /\ \E p \in 1..Len(rows) : ~IsTopRow(rows[p]) /\ rows[p].id = 2

\* C8: every reply row has sub_id "{parent_sequence_id}.{k}" with k running
\* 1, 2, ..., m over the parent's replies in reply order; every top-level
\* row has an empty sub_id; sub_id is unique within a sequence_id group.
C8_SubIds ==
    Returned =>
        /\ \A i \in 1..Len(result) :
              LET g == Group(i)
                  rs == RepliesOf(result[i])
              IN  /\ Len(g) = 1 + Len(rs)
                  /\ g[1].sub_id = ""
                  /\ g[1].comment = result[i].text
                  /\ \A k \in 1..Len(rs) :
                        /\ g[k + 1].sub_id = IntToStr(i) \o "." \o IntToStr(k)
                        /\ g[k + 1].comment = rs[k].text
                  /\ \A a, b \in 1..Len(g) :
                        a # b => g[a].sub_id # g[b].sub_id
        /\ \A p \in 1..Len(rows) : rows[p].id \in 1..Len(result)

\* a comment other than the first was normalized with two replies
C8_Witness ==
    /\ Returned
    /\ \E p \in 1..Len(rows) : rows[p].sub_id = "2.2"

\* C9: normalization emits, for each comment in input order, the comment's
\* row immediately followed by the rows of its replies in reply order; the
\* row count is the number of comments plus the number of replies; two
\* comments of which the first has one reply give (1, ""), (1, "1.1"),
\* (2, "").
C9_RowOrder ==
    Returned =>
        /\ Len(rows) = Len(result) + CountReplies(result, Len(result))
        /\ \A i \in 1..Len(result) :
              LET rs == RepliesOf(result[i]) IN
              /\ rows[Offset(i) + 1].comment = result[i].text
              /\ rows[Offset(i) + 1].id = i
              /\ IsTopRow(rows[Offset(i) + 1])
              /\ \A j \in 1..Len(rs) :
                    /\ rows[Offset(i) + 1 + j].comment = rs[j].text
                    /\ rows[Offset(i) + 1 + j].id = i
        /\ (/\ Len(result) = 2
            /\ Len(RepliesOf(result[1])) = 1
            /\ Len(RepliesOf(result[2])) = 0)
           => [p \in 1..Len(rows) |-> <<rows[p].id, rows[p].sub_id>>]
                = << <<1, "">>, <<1, "1.1">>, <<2, "">> >>

\* the scenario: two comments, the first with one reply, were normalized
C9_Witness ==
    /\ Returned
    /\ Len(result) = 2
    /\ Len(RepliesOf(result[1])) = 1
    /\ Len(RepliesOf(result[2])) = 0
    /\ Len(rows) = 3


(***************************************************************************)
(* Properties of the Account Resolver (SpecResolve).                       *)
(***************************************************************************)
EqualsIgnoringCase(a, b) == Lower(a) = Lower(b)

\* the name of the listed page with the given id
NameOfPage(id) == pages[CHOOSE i \in 1..Len(pages) : pages[i].id = id].name

HasExactMatch ==
    \E i \in 1..Len(pages) : EqualsIgnoringCase(pages[i].name, candidate)

\* C10: for one candidate name and any listing of accessible accounts, if
\* some account's name equals the candidate case-insensitively, the account
\* selected is one whose name equals the candidate case-insensitively, never
\* another one chosen by fuzzy score, on both platforms.
C10_ExactWins ==
    HasExactMatch =>
        /\ fb_resolved =>
              /\ fb_account # <<>>
              /\ EqualsIgnoringCase(NameOfPage(fb_account[1]), candidate)
        /\ ig_resolved =>
              /\ ig_page # <<>>
              /\ EqualsIgnoringCase(NameOfPage(ig_page[1]), candidate)
              /\ ig_account \in {<<>>, ig_page}

\* both resolvers have run on a listing in which a page that only matches
\* fuzzily (score above 30) precedes the page that matches exactly
C10_Witness ==
    /\ fb_resolved /\ ig_resolved
    /\ \E i, k \in 1..Len(pages) :
          /\ k < i
          /\ EqualsIgnoringCase(pages[i].name, candidate)
          /\ ~EqualsIgnoringCase(pages[k].name, candidate)
          /\ FuzzRatio(Lower(candidate), Lower(pages[k].name)) > 30

\* the similarity score of a listed page's name against the candidate
ScoreOf(i) == FuzzRatio(Lower(candidate), Lower(pages[i].name))

\* the best score any listed page reaches
MaxScore ==
    CHOOSE m \in {ScoreOf(i) : i \in 1..Len(pages)} :
        \A i \in 1..Len(pages) : m >= ScoreOf(i)

\* the account is NotFound when the best score is at most 30, and else is
\* a page whose name reaches the best score
BestAboveThreshold(account) ==
    IF MaxScore > 30
    THEN /\ account # <<>>
         /\ FuzzRatio(Lower(candidate), Lower(NameOfPage(account[1])))
               = MaxScore
    ELSE account = <<>>

\* C11: when no listed account matches the candidate exactly, the resolver
\* returns the account with the maximum similarity score if that score is
\* strictly greater than 30, and NotFound if the best score is 30 or lower,
\* on both platforms.
C11_FuzzyThreshold ==
    ~HasExactMatch =>
        /\ fb_resolved => BestAboveThreshold(fb_account)
        /\ ig_resolved => BestAboveThreshold(ig_page)

\* both resolvers have answered NotFound for a candidate whose best
\* score is exactly 30
C11_Witness ==
    /\ fb_resolved /\ ig_resolved
    /\ ~HasExactMatch
    /\ MaxScore = 30
    /\ fb_account = <<>> /\ ig_page = <<>>


(***************************************************************************)
(* Properties of the resolution of an alias list (SpecAliases).            *)
(***************************************************************************)
\* what the k-th alias alone resolves to on Facebook
FBMatch(k) == get_page_details_by_name(pages, <<aliases[k]>>)

\* the account of the earliest alias that matches one, <<>> when none does
EarliestFBMatch ==
    IF \E k \in 1..Len(aliases) : FBMatch(k) # <<>>
    THEN FBMatch(CHOOSE k \in 1..Len(aliases) :
                    /\ FBMatch(k) # <<>>
                    /\ \A m \in 1..(k - 1) : FBMatch(m) = <<>>)
    ELSE <<>>

\* C12: the aliases of a comma-separated list are tried in list order and
\* resolution stops at the first alias that matches an account, exactly or
\* with a score above 30: the account returned is that of the earliest
\* matching alias, and NotFound is returned only when no alias matches.
C12_EarliestAliasWins ==
    /\ list_resolved => list_account = EarliestFBMatch
    /\ \A j \in 1..Len(ig_tried) :
          /\ ig_tried[j].outcome # "listing_error" =>
                ig_tried[j].page = select_page(pages, aliases[j])
          /\ j < Len(ig_tried) => ig_tried[j].outcome # "connected"
    /\ ig_link_id # <<>> =>
          /\ ig_tried[Len(ig_tried)].outcome = "connected"
          /\ ig_link_id = ig_tried[Len(ig_tried)].page
    /\ (IGLoopDone /\ ig_link_id = <<>>) =>
          /\ Len(ig_tried) = Len(aliases)
          /\ \A j \in 1..Len(ig_tried) : ig_tried[j].outcome # "connected"
    /\ \A j \in 1..Len(fb_tried) :
          /\ fb_tried[j].account = FBMatch(j)
          /\ j < Len(fb_tried) => ~fb_tried[j].passed
    /\ fb_link_id # <<>> =>
          /\ fb_tried[Len(fb_tried)].passed
          /\ fb_link_id = fb_tried[Len(fb_tried)].account
    /\ (FBLoopDone /\ fb_link_id = <<>>) => Len(fb_tried) = Len(aliases)

\* C13: the request that lists the accessible accounts is issued once, when
\* the resolver is built, and no name resolution of the run, for any alias
\* on either platform, issues it again.
C13_ListedOnce == list_requests = 1


(***************************************************************************)
(* Properties of process_links (Spec).                                     *)
(***************************************************************************)
FirstPassOver == opc \in {"merge", "cleanup", "retry", "done"}

\* the links held by the two fetchers' failed_links
FailedSet ==
    {ig_failed[i] : i \in 1..Len(ig_failed)}
        \cup {fb_failed[i] : i \in 1..Len(fb_failed)}

CallsOf(pass) == {c \in 1..Len(calls) : calls[c].pass = pass}

RECURSIVE RowsOfPass(_, _)
RowsOfPass(pass, n) ==
    IF n = 0 THEN 0
    ELSE (IF calls[n].pass = pass THEN Len(calls[n].rows) ELSE 0)
         + RowsOfPass(pass, n - 1)

\* the positions of the table that hold the row made from payload token t
PositionsOf(table, t) == {p \in 1..Len(table) : table[p].comment = t}

OccursOnce(link) == Cardinality({i \in 1..Len(batch) : batch[i].link = link}) = 1

\* C2: a pair whose Locator fails has its link recorded in failed_links,
\* and no row of that link is in the merged output unless the link
\* succeeds on the retry pass.
C2_LocatorFailureRecorded ==
    \A c \in CallsOf(1) :
        (calls[c].rows = <<>> /\ ~calls[c].located) =>
            /\ calls[c].link \in FailedSet
            /\ OccursOnce(calls[c].link) =>
                  \A p \in 1..Len(comments_df) :
                      comments_df[p].url = calls[c].link =>
                          \E d \in CallsOf(2) :
                              /\ calls[d].link = calls[c].link
                              /\ calls[d].rows # <<>>

\* C3: for every batch, also one whose first pass collected no row, each
\* link recorded as failed in the first pass is run through process_link
\* exactly once more, and a link that fails the retry is not retried again.
C3_FailedRetriedOnce ==
    opc = "done" =>
        \A i \in 1..Len(batch) :
            LET l == batch[i].link IN
            Cardinality({c \in CallsOf(2) : calls[c].link = l})
              = Cardinality({c \in CallsOf(1) :
                               calls[c].link = l /\ calls[c].recorded})

\* C4: the rows of a link that failed in the first pass and succeeds on
\* the retry pass are in the returned table and in the combined file as
\* finally written, each exactly once, after the first-pass rows.
C4_RetryRowsAppended ==
    (opc = "done" /\ ret = "table") =>
        /\ combined_file = comments_df
        /\ \A c \in CallsOf(2) :
              \A k \in 1..Len(calls[c].rows) :
                  LET r == calls[c].rows[k]
                      at == PositionsOf(comments_df, r.comment)
                  IN  /\ Cardinality(at) = 1
                      /\ \A p \in at :
                            /\ p > RowsOfPass(1, Len(calls))
                            /\ comments_df[p].url = calls[c].link
                            /\ comments_df[p].id = r.id
                            /\ comments_df[p].sub_id = r.sub_id
                            /\ comments_df[p].client = ClientOf(calls[c].link)

\* a run has returned in which a retried link produced a comment and its
\* reply
C4_Witness ==
    /\ opc = "done" /\ ret = "table"
    /\ \E c \in CallsOf(2) : Len(calls[c].rows) = 2

\* C5: a pair for which a stage finds nothing ends the first pass with its
\* link in failed_links and the next pair is processed, so that after the
\* first pass every input link has contributed a row or is in failed_links.
C5_EveryLinkRowOrFailed ==
    FirstPassOver =>
        /\ Cardinality(CallsOf(1)) = Len(batch)
        /\ \A i \in 1..Len(batch) :
              \/ batch[i].link \in FailedSet
              \/ \E c \in CallsOf(1) :
                    calls[c].link = batch[i].link /\ calls[c].rows # <<>>

ErrorSeen == \E c \in 1..Len(calls) : calls[c].error

\* C6: an error raised while one pair is processed, in the first pass or
\* in the retry pass, does not end the batch: the pair's link is recorded
\* as failed, every other pair is still processed, and process_links
\* returns the rows collected from the other pairs.
C6_ErrorsDoNotStopBatch ==
    /\ \A c \in 1..Len(calls) : calls[c].error => calls[c].link \in FailedSet
    /\ (ErrorSeen /\ FirstPassOver) => Cardinality(CallsOf(1)) = Len(batch)
    /\ (ErrorSeen /\ opc = "done") =>
          /\ ret = "table" => Cardinality(CallsOf(2)) = Len(failed_links)
          /\ RowsOfPass(1, Len(calls)) > 0 =>
                /\ ret = "table"
                /\ Len(comments_df) = RowsOfPass(1, Len(calls))
                                        + RowsOfPass(2, Len(calls))
                /\ \A c \in 1..Len(calls) :
                      \A k \in 1..Len(calls[c].rows) :
                          Cardinality(PositionsOf(comments_df,
                                          calls[c].rows[k].comment)) = 1

\* a run has returned a table although a pair raised in the first pass and
\* a pair raised in the retry pass
C6_Witness ==
    /\ opc = "done" /\ ret = "table"
    /\ \E c \in CallsOf(1) : calls[c].error
    /\ \E c \in CallsOf(2) : calls[c].error
    /\ comments_df # <<>>

\* the links of the pairs that produced no row in the first pass and none
\* in a retry
PermanentlyFailed ==
    {calls[c].link : c \in {c \in CallsOf(1) :
        /\ calls[c].rows = <<>>
        /\ \A d \in CallsOf(2) :
              calls[d].link = calls[c].link => calls[d].rows = <<>>}}

\* C14: when process_links has completed, the failed links it holds are
\* exactly the links of the pairs that failed the first pass and the
\* retry: a pair that fails the retry is still among them, a pair that
\* succeeds on the retry is not.
C14_FailedArePermanent ==
    opc = "done" => FailedSet = PermanentlyFailed

C17_RateLimitPauses ==
    \A c \in 1..Len(calls) :
        calls[c].limited =>
            /\ calls[c].paused
            /\ calls[c].rows = <<>>
            /\ calls[c].link \in FailedSet

\* the column order the emitted table is given: sequence_id is the column
\* labelled id, capture_timestamp the column labelled timestamp
EmittedColumns ==
    <<"id", "sub_id", "date", "week", "likes", "live_video_timestamp",
      "comment", "image_urls", "view_source", "timestamp", "client", "url",
      "platform", "author">>

\* C18: the emitted table has the columns sequence_id, sub_id, date, week,
\* likes, live_video_timestamp, comment, image_urls, view_source,
\* capture_timestamp, client, url, platform, author in exactly this order,
\* author last, for every run, with or without appended retry rows.
C18_ColumnOrder ==
    (opc = "done" /\ ret = "table") => columns = EmittedColumns

\* C19: for every row of the final table, rows appended by the retry pass
\* included, week is the date of the Monday on or before the row's date;
\* Thursday 2024-03-14 gives 2024-03-11 and a Monday gives itself.
C19_WeekIsMonday ==
    (opc = "done" /\ ret = "table") =>
        /\ Len(week) = Len(comments_df)
        /\ \A p \in 1..Len(comments_df) :
              LET date == DateOf(comments_df[p]) IN
              /\ \E k \in 0..6 :
                    LET monday == FromOrdinal(ToOrdinal(date) - k) IN
                    /\ Weekday(monday) = 0
                    /\ week[p] = Strftime(monday)
              /\ date = [y |-> 2024, m |-> 3, d |-> 14]
                    => week[p] = "2024-03-11"
              /\ date = [y |-> 2024, m |-> 3, d |-> 11]
                    => week[p] = "2024-03-11"
              /\ date = [y |-> 2024, m |-> 3, d |-> 2]
                    => week[p] = "2024-02-26"

\* a run has returned a table that holds a row dated Thursday 2024-03-14
\* and a row of a Monday appended by the retry pass
C19_Witness ==
    /\ opc = "done" /\ ret = "table"
    /\ \E p \in 1..Len(comments_df) :
          DateOf(comments_df[p]) = [y |-> 2024, m |-> 3, d |-> 14]
    /\ \E p \in (RowsOfPass(1, Len(calls)) + 1)..Len(comments_df) :
          Weekday(DateOf(comments_df[p])) = 0

C21_CleanupAfterWrite ==
    /\ (opc = "cleanup" \/ cleanup # "none") => combined_file # <<>>
    /\ (cleanup = "failed" /\ opc = "retry") => ret = "running"
    /\ (cleanup = "failed" /\ opc = "done") =>
          /\ ret = "table"
          /\ combined_file = comments_df
          /\ Cardinality(CallsOf(2)) = Len(failed_links)

\* a run whose cleanup failed has retried a failed link and returned
C21_Witness ==
    /\ opc = "done" /\ cleanup = "failed"
    /\ CallsOf(2) # {}


(***************************************************************************)
(* Claims about one call of process_link (SpecLink).                       *)
(***************************************************************************)
\* C27: for a Facebook reel or video.php link, whose pattern gives an id
\* without a page component, the comments are requested only with an id
\* that a lookup request validated or that the feed search found.
C27_ConstructedIdValidated ==
    (/\ link_platform = "facebook"
     /\ url_shape \in {"reel", "video"}
     /\ comment_requests > 0)
        => post_id \in {"validated", "feed"}


Stages == <<"resolve", "locate", "retrieve", "normalize", "merge">>

\* the stages of an attempt that failed at stage f, f included
StagesUpTo(f) ==
    IF f = "start" THEN <<>>
    ELSE SubSeq(Stages, 1, CHOOSE i \in 1..Len(Stages) : Stages[i] = f)

\* the attempt just made has failed and no other has begun
AttemptFailed ==
    /\ failed_at # "none"
    /\ lpc \in {"resolve", "returned"}
    /\ link_result # "rows"

SearchEnded ==
    /\ link_platform = "instagram"
    /\ lpc = "returned"
    /\ failed_at = "locate"

\* C30: the media search makes at most 30 listing requests, asks for the
\* pages in cursor order, ends at the first item whose permalink code is
\* exactly the sought code and gives that item's id, and returns NotFound
\* when it ends without a match: the cursor ran out, a listing request
\* failed, or the page limit was reached.
C30_MediaSearch ==
    /\ page_count <= max_pages
    /\ (lpc = "search" /\ media_next # 0) => media_next = page_count + 1
    /\ media_id # 0 =>
          /\ ~match_passed
          /\ \E i \in 1..Len(media_page) :
                /\ media_page[i] = media_code
                /\ media_id = ItemId(page_count, i)
                /\ \A k \in 1..(i - 1) : media_page[k] # media_code
    /\ SearchEnded => (link_result = "empty" /\ media_id = 0)


\* the patterns of extract_post_id_from_url in the order it tries them
Priority == <<"underscore", "reel", "permalink", "video">>

\* the places of the patterns of Priority that match somewhere in the link
Matching(url) ==
    { k \in 1..Len(Priority) :
        \E i \in 1..Len(url) : url[i].kind = Priority[k] }

\* C31: extract_post_id_from_url returns the result of the first pattern,
\* in the order pageId_postId, reel, permalink.php, video.php, that matches
\* the link, also when several match: the two composite patterns give
\* (page id, post id), reel and video.php give (None, id), and a link none
\* of them matches gives (None, None).
C31_FirstPatternWins ==
    url_ids.done =>
        LET m == Matching(post_url) IN
        IF m = {}
        THEN url_ids.page_id = 0 /\ url_ids.post_id = 0
        ELSE LET k == CHOOSE k \in m : \A j \in m : k <= j
                 f == post_url[Search(Priority[k], post_url)]
             IN  /\ url_ids.post_id # 0
                 /\ k = 1 => (url_ids.page_id = f.a /\ url_ids.post_id = f.b)
                 /\ k = 2 => (url_ids.page_id = 0 /\ url_ids.post_id = f.a)
                 /\ k = 3 => (url_ids.page_id = f.b /\ url_ids.post_id = f.a)
                 /\ k = 4 => (url_ids.page_id = 0 /\ url_ids.post_id = f.a)

\* a link with a reel fragment before a <page>_<post> fragment, for which
\* the page and post id of the latter were returned
C31_Witness ==
    /\ url_ids.done
    /\ Len(post_url) = 2
    /\ post_url[1].kind = "reel"
    /\ post_url[2].kind = "underscore"
    /\ url_ids.page_id = post_url[2].a


\* C32: a call whose client is absent or is no string makes no account
\* lookup, no post or media search and no comment request, returns no
\* rows, and lets no exception out, on both platforms.
C32_MalformedClientSkipped ==
    client_kind # "string" =>
        /\ lpc \in {"start", "returned"}
        /\ stage_log = <<>>
        /\ ~page_found
        /\ lookups = 0 /\ page_count = 0 /\ comment_requests = 0
        /\ link_result \in {"pending", "empty"}
        /\ lpc = "returned" => link_result = "empty"

\* an Instagram call with a usable link and a client that is a number has
\* returned
C32_Witness ==
    /\ client_kind = "nonstring"
    /\ link_platform = "instagram"
    /\ url_shape = "p"
    /\ lpc = "returned"
    /\ link_result = "empty"


(***************************************************************************)
(* Further claims about process_links (Spec).                              *)
(***************************************************************************)
\* C33: the rows a call of process_link returns for a client given as
\* several names carry the name whose account was used for the retrieval,
\* never a name tried before or after it.
C33_TaggedWithResolvingAlias ==
    \A c \in 1..Len(calls) :
        \A p \in 1..Len(calls[c].rows) :
            /\ calls[c].used # ""
            /\ calls[c].rows[p].client = calls[c].used

\* an Instagram and a Facebook call each returned rows for the second name
\* of the list after the first one had given nothing
C33_Witness ==
    \E c, d \in 1..Len(calls) :
        /\ calls[c].link.platform = "instagram"
        /\ calls[d].link.platform = "facebook"
        /\ calls[c].rows # <<>> /\ calls[c].rows[1].client = "a2"
        /\ calls[d].rows # <<>> /\ calls[d].rows[1].client = "a2"


\* a row with its client blanked
WithoutClient(row) == [row EXCEPT !.client = ""]

C35_InterLinkDelay ==
    \A c \in 1..Len(calls) :
        calls[c].pass = 1 =>
            IF /\ c < Len(calls)
               /\ calls[c + 1].pass = 1
               /\ calls[c + 1].link.platform = calls[c].link.platform
            THEN calls[c].delayed
            ELSE (c < Len(calls) \/ opc \notin {"instagram", "facebook"})
                    => ~calls[c].delayed


\* the pair a first-pass call was made for: the loops walk the Instagram
\* rows and then the Facebook rows, one call each
PairOfCall(c) ==
    LET ig == PlatformRows("instagram") IN
    IF c <= Len(ig) THEN ig[c] ELSE PlatformRows("facebook")[c - Len(ig)]

\* the row of the table is one that call c collected
CollectedBy(row, c) ==
    \E p \in 1..Len(calls[c].rows) :
        /\ calls[c].rows[p].platform = row.platform
        /\ calls[c].rows[p].comment = row.comment

\* C36: every row of the merged table carries the client of the input
\* pair from whose link it was collected, also when one link of the batch
\* is contained in another or a link stands under two clients.
C36_OriginalClient ==
    \A q \in 1..Len(comments_df) :
        \A c \in 1..Len(calls) :
            CollectedBy(comments_df[q], c) =>
                IF calls[c].pass = 1
                THEN comments_df[q].client = PairOfCall(c).client
                ELSE OccursOnce(calls[c].link) =>
                        comments_df[q].client = ClientOf(calls[c].link)


(***************************************************************************)
(* A further claim about the retrieval of one post (SpecRetrieve).         *)
(***************************************************************************)
\* C37: in get_instagram_comments the counter compared against the cap,
\* total_comments + total_replies, equals at every point the number of
\* top-level comments plus the number of replies accumulated so far: those
\* of the comments already stored and those of the running reply loop.
C37_CounterExact ==
    (platform = "instagram" /\ ~raised) =>
        total_comments + total_replies =
            Len(all_comments) + CountReplies(result, Len(result))
                + (IF in_reply THEN Len(all_replies) ELSE 0)


C39_NoArtifactRemains ==
    (opc = "done" /\ ret = "table") => fb_files = {}

=============================================================================
